---- MODULE Spec2Model ----
(***************************************************************************)
(* A model of the lib-gb-rs Game Boy core: the register file, the          *)
(* interrupt controller, the timer, the memory bus and the execution       *)
(* engine (handle_next), driven one operation at a time by                 *)
(* GameBoy::execute_operation.                                             *)
(*                                                                         *)
(* The whole machine is one record (the GameBoy's cpu and GameboyContext); *)
(* every function of the source is an operator from machine to machine.    *)
(* A value read from the bus is left in the field rd.  A panic of the Rust *)
(* code is recorded in the field panicked, after which nothing runs.       *)
(***************************************************************************)
EXTENDS Integers, Sequences, FiniteSets, TLC

VARIABLES
    gb,              \* GameBoy.cpu and GameBoy.context
    rom,             \* the cartridge handed to GameBoy::new
    next_operation,  \* GameBoy.next_operation
    events,          \* the events returned by the last execute_operation
    outcome,         \* its Result: "ok", "err" or "panic" ("none" before the first)
    hist             \* what the last action did and the machine it started from

vars == <<gb, rom, next_operation, events, outcome, hist>>

----------------------------------------------------------------------------
(* Integer helpers: Rust's fixed-width arithmetic and bit operators.       *)

Byte == 0 .. 255

Wrap8(x) == x % 256

Wrap16(x) == x % 65536

\* bit i of x (x >> i) & 1
Bit(x, i) == (x \div (2 ^ i)) % 2

\* x & mask > 0 for a one-bit mask
Masked(x, mask) == (x \div mask) % 2 = 1

RECURSIVE BitAnd(_, _, _)
BitAnd(a, b, n) ==
    IF n = 0 THEN 0
    ELSE (a % 2) * (b % 2) + 2 * BitAnd(a \div 2, b \div 2, n - 1)

RECURSIVE BitOr(_, _, _)
BitOr(a, b, n) ==
    IF n = 0 THEN 0
    ELSE (IF a % 2 = 1 \/ b % 2 = 1 THEN 1 ELSE 0)
         + 2 * BitOr(a \div 2, b \div 2, n - 1)

RECURSIVE BitXor(_, _, _)
BitXor(a, b, n) ==
    IF n = 0 THEN 0
    ELSE ((a + b) % 2) + 2 * BitXor(a \div 2, b \div 2, n - 1)

And8(a, b) == BitAnd(a, b, 8)
Or8(a, b) == BitOr(a, b, 8)
Xor8(a, b) == BitXor(a, b, 8)

\* F(v) with v bound to the value of x, which is computed once: the value
\* a Rust `let` holds
Let(x, F(_)) == CHOOSE r \in {F(v) : v \in {x}} : TRUE

\* a sparse byte array that starts zeroed: the cells written so far
Load(arr, i) == IF i \in DOMAIN arr THEN arr[i] ELSE 0

Store(arr, i, v) == [x \in DOMAIN arr \cup {i} |-> IF x = i THEN v ELSE arr[x]]

EmptyArr == [x \in {} |-> 0]

----------------------------------------------------------------------------
(* Panics and events.                                                      *)

Panic(m, why) == IF m.panicked = "" THEN [m EXCEPT !.panicked = why] ELSE m

push_event(m, e) == [m EXCEPT !.events = Append(@, e)]

----------------------------------------------------------------------------
(* components/interrupt_controller.rs                                      *)

Interrupts == <<"VBlank", "LcdStat", "Timer", "Serial", "Joypad">>

InterruptFlagOf(i) ==
    CASE i = "VBlank" -> 1
      [] i = "LcdStat" -> 2
      [] i = "Timer" -> 4
      [] i = "Serial" -> 8
      [] i = "Joypad" -> 16

handler_address(i) ==
    CASE i = "VBlank" -> 64
      [] i = "LcdStat" -> 72
      [] i = "Timer" -> 80
      [] i = "Serial" -> 88
      [] i = "Joypad" -> 96

\* a slip: the reserved bits are kept
InterruptFlagKept(v) == v

\* InterruptFlag::from_bits_truncate
InterruptFlagTruncate(v) == v % 32

InterruptController_tick(m) ==
    IF m.ime_scheduled
    THEN [m EXCEPT !.interrupt_master_enable = TRUE, !.ime_scheduled = FALSE]
    ELSE m

InterruptController_read(m, address) ==
    CASE address = 65295 -> m.interrupt_flag
      [] address = 65535 -> m.interrupt_enable
      [] OTHER -> -1

InterruptController_write(m, address, value) ==
    CASE address = 65295 ->
            [m EXCEPT !.interrupt_flag = InterruptFlagTruncate(value)]
      [] address = 65535 ->
            [m EXCEPT !.interrupt_enable = InterruptFlagTruncate(value)]

InterruptController_raise_interrupt(m, i) ==
    [m EXCEPT !.interrupt_flag = Or8(@, InterruptFlagOf(i))]

\* a slip: the acknowledge clears every request
unraise_interrupt_all(m, i) == [m EXCEPT !.interrupt_flag = 0]

unraise_interrupt(m, i) ==
    [m EXCEPT !.interrupt_flag = @ - And8(@, InterruptFlagOf(i))]

\* a slip: a halt that only a serviceable interrupt ends
should_cancel_halt_ime(m) ==
    m.interrupt_master_enable /\ And8(m.interrupt_flag, m.interrupt_enable) # 0

should_cancel_halt(m) == And8(m.interrupt_flag, m.interrupt_enable) # 0

\* a slip: the poll forgets the master enable
should_start_interrupt_routine_any(m) ==
    And8(m.interrupt_flag, m.interrupt_enable) # 0

should_start_interrupt_routine(m) ==
    m.interrupt_master_enable
    /\ And8(m.interrupt_flag, m.interrupt_enable) # 0

\* a slip: the checks in the opposite order
get_highest_priority_interrupt_reversed(m) ==
    IF ~m.interrupt_master_enable THEN "None"
    ELSE Let(And8(m.interrupt_flag, m.interrupt_enable), LAMBDA candidates :
             IF Masked(candidates, 16) THEN "Joypad"
             ELSE IF Masked(candidates, 8) THEN "Serial"
             ELSE IF Masked(candidates, 4) THEN "Timer"
             ELSE IF Masked(candidates, 2) THEN "LcdStat"
             ELSE IF Masked(candidates, 1) THEN "VBlank"
             ELSE "None")

\* "None" stands for Option::None
get_highest_priority_interrupt(m) ==
    IF ~m.interrupt_master_enable THEN "None"
    ELSE Let(And8(m.interrupt_flag, m.interrupt_enable), LAMBDA candidates :
             IF Masked(candidates, 1) THEN "VBlank"
             ELSE IF Masked(candidates, 2) THEN "LcdStat"
             ELSE IF Masked(candidates, 4) THEN "Timer"
             ELSE IF Masked(candidates, 8) THEN "Serial"
             ELSE IF Masked(candidates, 16) THEN "Joypad"
             ELSE "None")

schedule_ime_enable(m) == [m EXCEPT !.ime_scheduled = TRUE]

enable_interrupts(m) == [m EXCEPT !.interrupt_master_enable = TRUE]

\* a slip: only the latch is cleared
disable_interrupts_latch_only(m) == [m EXCEPT !.ime_scheduled = FALSE]

\* a slip: disabling the interrupts also drops the requests
disable_interrupts_dropping(m) ==
    [m EXCEPT !.ime_scheduled = FALSE, !.interrupt_master_enable = FALSE,
              !.interrupt_flag = 0]

disable_interrupts(m) ==
    [m EXCEPT !.ime_scheduled = FALSE, !.interrupt_master_enable = FALSE]

----------------------------------------------------------------------------
(* components/timer.rs                                                     *)

TimerControl_into_bits(c) ==
    CASE c = "Div1024" -> 0
      [] c = "Div16" -> 1
      [] c = "Div64" -> 2
      [] c = "Div256" -> 3

TimerControl_from_bits(bits) ==
    CASE bits % 4 = 0 -> "Div1024"
      [] bits % 4 = 1 -> "Div16"
      [] bits % 4 = 2 -> "Div64"
      [] bits % 4 = 3 -> "Div256"

\* a slip: the 16-clock period watches bit 4
TimerControl_mask_bit4(c) ==
    CASE c = "Div1024" -> 512
      [] c = "Div16" -> 16
      [] c = "Div64" -> 32
      [] c = "Div256" -> 128

TimerControl_mask(c) ==
    CASE c = "Div1024" -> 512
      [] c = "Div16" -> 8
      [] c = "Div64" -> 32
      [] c = "Div256" -> 128

Timer_reload(m) ==
    IF m.timer_overflowed_last_tick
    THEN [InterruptController_raise_interrupt(m, "Timer") EXCEPT
            !.timer_counter = m.timer_modulo,
            !.timer_overflowed_last_tick = FALSE]
    ELSE m

\* a slip: TIMA counts while the level is low, not on the edge
Timer_increment_level(m, high_and_enabled) ==
    IF ~high_and_enabled
    THEN LET c == Wrap8(m.timer_counter + 1)
         IN  [m EXCEPT !.timer_counter = c,
                       !.timer_overflowed_last_tick = IF c = 0 THEN TRUE ELSE @]
    ELSE m

\* a slip: TIMA counts the rising edges
Timer_increment_rising(m, high_and_enabled) ==
    IF high_and_enabled /\ ~m.timer_was_high_last_tick
    THEN LET c == Wrap8(m.timer_counter + 1)
         IN  [m EXCEPT !.timer_counter = c,
                       !.timer_overflowed_last_tick = IF c = 0 THEN TRUE ELSE @]
    ELSE m

\* a slip: the overflow reloads and requests the interrupt at once
Timer_increment_reloading(m, high_and_enabled) ==
    IF ~high_and_enabled /\ m.timer_was_high_last_tick
    THEN LET c == Wrap8(m.timer_counter + 1)
         IN  IF c = 0
             THEN [InterruptController_raise_interrupt(m, "Timer") EXCEPT
                     !.timer_counter = m.timer_modulo]
             ELSE [m EXCEPT !.timer_counter = c]
    ELSE m

Timer_increment(m, high_and_enabled) ==
    IF ~high_and_enabled /\ m.timer_was_high_last_tick
    THEN LET c == Wrap8(m.timer_counter + 1)
         IN  [m EXCEPT !.timer_counter = c,
                       !.timer_overflowed_last_tick = IF c = 0 THEN TRUE ELSE @]
    ELSE m

\* a slip: the enable bit is not looked at
Timer_tick_free_running(m) ==
    LET divider == Wrap16(m.divider + 1)
        is_high == Masked(divider, TimerControl_mask(m.timer_control))
    IN  [Timer_increment(Timer_reload([m EXCEPT !.divider = divider]), is_high)
            EXCEPT !.timer_was_high_last_tick = is_high]

Timer_tick(m) ==
    LET divider == Wrap16(m.divider + 1)
        is_high == Masked(divider, TimerControl_mask(m.timer_control))
    IN  Let(is_high /\ m.timer_enabled, LAMBDA high_and_enabled :
        Let(Timer_reload([m EXCEPT !.divider = divider]), LAMBDA m1 :
        Let(Timer_increment(m1, high_and_enabled), LAMBDA m2 :
            [m2 EXCEPT !.timer_was_high_last_tick = high_and_enabled])))

\* a slip: DIV shows the low byte of the divider
Timer_read_low_byte(m, address) ==
    CASE address = 65284 -> m.divider % 256
      [] address = 65285 -> m.timer_counter
      [] address = 65286 -> m.timer_modulo
      [] address = 65287 ->
            (IF m.timer_enabled THEN 4 ELSE 0)
            + TimerControl_into_bits(m.timer_control)
      [] OTHER -> -1

Timer_read(m, address) ==
    CASE address = 65284 -> m.divider \div 256
      [] address = 65285 -> m.timer_counter
      [] address = 65286 -> m.timer_modulo
      [] address = 65287 ->
            (IF m.timer_enabled THEN 4 ELSE 0)
            + TimerControl_into_bits(m.timer_control)
      [] OTHER -> -1

\* a slip: a write to TIMA cancels the reload that is due
Timer_write_cancelling(m, address, value) ==
    CASE address = 65284 -> [m EXCEPT !.divider = 0]
      [] address = 65285 -> [m EXCEPT !.timer_counter = value,
                                      !.timer_overflowed_last_tick = FALSE]
      [] address = 65286 -> [m EXCEPT !.timer_modulo = value]
      [] address = 65287 ->
            [m EXCEPT !.timer_enabled = Masked(value, 4),
                      !.timer_control = TimerControl_from_bits(value)]

\* a slip: the divider reset also forgets the level of the last tick
Timer_write_resetting_edge(m, address, value) ==
    CASE address = 65284 -> [m EXCEPT !.divider = 0, !.timer_was_high_last_tick = FALSE]
      [] address = 65285 -> [m EXCEPT !.timer_counter = value]
      [] address = 65286 -> [m EXCEPT !.timer_modulo = value]
      [] address = 65287 ->
            [m EXCEPT !.timer_enabled = Masked(value, 4),
                      !.timer_control = TimerControl_from_bits(value)]

\* a slip: a TAC write takes the level of the last tick under the new TAC
Timer_write_resampling(m, address, value) ==
    CASE address = 65284 -> [m EXCEPT !.divider = 0]
      [] address = 65285 -> [m EXCEPT !.timer_counter = value]
      [] address = 65286 -> [m EXCEPT !.timer_modulo = value]
      [] address = 65287 ->
            [m EXCEPT !.timer_enabled = Masked(value, 4),
                      !.timer_control = TimerControl_from_bits(value),
                      !.timer_was_high_last_tick =
                            Masked(value, 4)
                            /\ Masked(m.divider,
                                      TimerControl_mask(TimerControl_from_bits(value)))]

Timer_write(m, address, value) ==
    CASE address = 65284 -> [m EXCEPT !.divider = 0]
      [] address = 65285 -> [m EXCEPT !.timer_counter = value]
      [] address = 65286 -> [m EXCEPT !.timer_modulo = value]
      [] address = 65287 ->
            [m EXCEPT !.timer_enabled = Masked(value, 4),
                      !.timer_control = TimerControl_from_bits(value)]

----------------------------------------------------------------------------
(* components/cpu.rs: the register file.                                   *)

\* a slip: the low nibble of F is kept
FlagsKept(v) == v

\* Flags::from_bits_truncate: only Z, N, H and C (bits 7..4) exist
FlagsTruncate(v) == v - (v % 16)

FlagZ == 128
FlagN == 64
FlagH == 32
FlagC == 16

\* Flags::contains for a single flag
HasFlag(m, flag) == Masked(m.f, flag)

\* Flags::set for a single flag
SetFlag(m, flag, on) ==
    [m EXCEPT !.f = IF on THEN Or8(@, flag) ELSE @ - And8(@, flag)]

after_boot_rom ==
    [a |-> 0, f |-> 0, b |-> 0, c |-> 0, d |-> 0, e |-> 0, h |-> 0, l |-> 0,
     sp |-> 65534, pc |-> 256, state |-> "Running"]

read_register8(m, reg) ==
    CASE reg = "A" -> m.a
      [] reg = "B" -> m.b
      [] reg = "C" -> m.c
      [] reg = "D" -> m.d
      [] reg = "E" -> m.e
      [] reg = "H" -> m.h
      [] reg = "L" -> m.l

write_register8(m, reg, byte) ==
    CASE reg = "A" -> [m EXCEPT !.a = byte]
      [] reg = "B" -> [m EXCEPT !.b = byte]
      [] reg = "C" -> [m EXCEPT !.c = byte]
      [] reg = "D" -> [m EXCEPT !.d = byte]
      [] reg = "E" -> [m EXCEPT !.e = byte]
      [] reg = "H" -> [m EXCEPT !.h = byte]
      [] reg = "L" -> [m EXCEPT !.l = byte]

read_register16(m, reg) ==
    CASE reg = "AF" -> m.a * 256 + m.f
      [] reg = "BC" -> m.b * 256 + m.c
      [] reg = "DE" -> m.d * 256 + m.e
      [] reg = "HL" -> m.h * 256 + m.l
      [] reg = "SP" -> m.sp
      [] reg = "PC" -> m.pc

write_register16(m, reg, word) ==
    LET high == word \div 256
        low == word % 256
    IN  CASE reg = "AF" -> [m EXCEPT !.a = high, !.f = FlagsTruncate(low)]
          [] reg = "BC" -> [m EXCEPT !.b = high, !.c = low]
          [] reg = "DE" -> [m EXCEPT !.d = high, !.e = low]
          [] reg = "HL" -> [m EXCEPT !.h = high, !.l = low]
          [] reg = "SP" -> [m EXCEPT !.sp = word]
          [] reg = "PC" -> [m EXCEPT !.pc = word]

\* a slip: PC leaves the 16-bit range instead of wrapping
increment_pc_unwrapped(m) == [m EXCEPT !.pc = @ + 1]

increment_pc(m) == [m EXCEPT !.pc = Wrap16(@ + 1)]

from_byte_sp(b) ==
    CASE b = 0 -> "BC" [] b = 1 -> "DE" [] b = 2 -> "HL" [] b = 3 -> "SP"

from_byte_af(b) ==
    CASE b = 0 -> "BC" [] b = 1 -> "DE" [] b = 2 -> "HL" [] b = 3 -> "AF"

----------------------------------------------------------------------------
(* components/wram.rs, high_ram.rs, cartridge/rom_only.rs, mbc1.rs         *)
(* A read that the component does not own (Option::None) is -1.            *)

WorkRam_owns(address) == address >= 49152 /\ address <= 57343

HighRam_owns(address) == address >= 65408 /\ address <= 65534

\* the byte at absolute offset i of the ROM image: code placed at base,
\* fill everywhere else
RomByte(i) ==
    IF i >= rom.base /\ i < rom.base + Len(rom.code)
    THEN rom.code[i - rom.base + 1]
    ELSE rom.fill

RomOnly_read(address) == IF address < 32768 THEN RomByte(address) ELSE -1

\* rom[bank][offset] panics when bank is not a bank of the image
Mbc1_read(m, address) ==
    IF address <= 16383 THEN RomByte(address)
    ELSE IF address <= 32767
         THEN IF m.rom_bank < rom.banks
              THEN RomByte(m.rom_bank * 16384 + (address - 16384))
              ELSE -2
         ELSE -1

Cartridge_read(m, address) ==
    IF rom.kind = "Mbc1" THEN Mbc1_read(m, address) ELSE RomOnly_read(address)

Cartridge_owns_write(address) ==
    rom.kind = "Mbc1" /\ address >= 8192 /\ address <= 16383

Mbc1_write(m, address, byte) == [m EXCEPT !.rom_bank = byte]

----------------------------------------------------------------------------
(* components/serial.rs                                                    *)

Serial_tick(m) ==
    LET cc == IF m.serial_clock_counter + 1 = 512 THEN 0
              ELSE m.serial_clock_counter + 1
    IN  Let([m EXCEPT !.serial_clock_counter = cc], LAMBDA m1 :
            IF cc = 0 /\ Masked(m.serial_control, 128)
            THEN IF ~Masked(m.serial_control, 1)
                 THEN Panic(m1, "Serial external clock")
                 ELSE Let([m1 EXCEPT !.serial_data = Wrap8(@ * 2) + 1,
                                     !.serial_bit_counter = @ + 1], LAMBDA m2 :
                          IF m2.serial_bit_counter = 8
                          THEN InterruptController_raise_interrupt(
                                  push_event([m2 EXCEPT !.serial_control = @ - 128,
                                                        !.serial_bit_counter = 0],
                                             [type |-> "SerialOut", value |-> m2.serial_data_copy]),
                                  "Serial")
                          ELSE m2)
            ELSE m1)

Serial_read(m, address) ==
    CASE address = 65281 -> m.serial_data
      [] address = 65282 -> m.serial_control
      [] OTHER -> -1

\* Control::from_bits_truncate keeps TRANSFER_START and IS_INTERNAL_CLOCK
Serial_write(m, address, value) ==
    CASE address = 65281 ->
            [m EXCEPT !.serial_data = value, !.serial_data_copy = value]
      [] address = 65282 ->
            LET control == (value \div 128) * 128 + (value % 2)
            IN  [m EXCEPT !.serial_control = control,
                          !.serial_bit_counter = IF control >= 128 THEN 0 ELSE @]

----------------------------------------------------------------------------
(* components/ppu.rs: the mode machine, the registers and the STAT line.   *)
(* The pixel colours and the frame buffer are left out: no register, no   *)
(* interrupt and no bus read depends on them.                              *)

Ppu_mode_bits(mode) ==
    CASE mode = "HBlank0" -> 0
      [] mode = "VBlank1" -> 1
      [] mode = "OAMSearch2" -> 2
      [] mode = "LCDOn3" -> 3

Ppu_mode_switch(m) ==
    push_event(m, [type |-> "PpuModeSwitch", mode |-> m.ppu_mode,
                   x |-> m.x_clock, y |-> m.ly])

Ppu_advance(m) ==
    CASE m.ppu_mode = "HBlank0" ->
            IF m.x_clock + 1 = 456
            THEN IF m.ly + 1 = 144
                 THEN Ppu_mode_switch(
                        push_event(
                          InterruptController_raise_interrupt(
                            [m EXCEPT !.x_clock = 0, !.ly = 144, !.ppu_mode = "VBlank1"],
                            "VBlank"),
                          [type |-> "FrameReady"]))
                 ELSE Ppu_mode_switch(
                        [m EXCEPT !.x_clock = 0, !.ly = @ + 1, !.ppu_mode = "OAMSearch2"])
            ELSE [m EXCEPT !.x_clock = @ + 1]
      [] m.ppu_mode = "VBlank1" ->
            IF m.x_clock + 1 = 456
            THEN IF m.ly + 1 = 154
                 THEN Ppu_mode_switch(
                        [m EXCEPT !.x_clock = 0, !.ly = 0, !.ppu_mode = "OAMSearch2"])
                 ELSE [m EXCEPT !.x_clock = 0, !.ly = @ + 1]
            ELSE [m EXCEPT !.x_clock = @ + 1]
      [] m.ppu_mode = "OAMSearch2" ->
            IF m.x_clock + 1 = 80
            THEN Ppu_mode_switch(
                   [m EXCEPT !.x_clock = 80, !.ppu_mode = "LCDOn3", !.x_pixel = 0])
            ELSE [m EXCEPT !.x_clock = @ + 1]
      [] m.ppu_mode = "LCDOn3" ->
            Let(push_event(m, [type |-> "PpuPixelPushed", x |-> m.x_pixel, y |-> m.ly]), LAMBDA m1 :
            Let([m1 EXCEPT !.x_clock = @ + 1, !.x_pixel = @ + 1], LAMBDA m2 :
                IF m2.x_pixel = 160
                THEN Ppu_mode_switch([m2 EXCEPT !.ppu_mode = "HBlank0"])
                ELSE m2))

Ppu_stat_line(m) ==
    \/ Masked(m.stat, 64) /\ m.ly = m.lyc
    \/ Masked(m.stat, 16) /\ m.ppu_mode = "VBlank1"
    \/ Masked(m.stat, 32) /\ m.ppu_mode = "OAMSearch2"
    \/ Masked(m.stat, 8) /\ m.ppu_mode = "HBlank0"

Ppu_tick(m) ==
    IF ~Masked(m.lcdc, 128) THEN m
    ELSE Let(Ppu_advance(m), LAMBDA m1 :
         Let(Ppu_stat_line(m1), LAMBDA stat :
         Let([m1 EXCEPT !.lyc_is_ly = (m1.ly = m1.lyc)], LAMBDA m2 :
         Let((IF ~m.previous_stat_interrupt /\ stat
              THEN InterruptController_raise_interrupt(m2, "LcdStat")
              ELSE m2), LAMBDA m3 :
             [m3 EXCEPT !.previous_stat_interrupt = stat]))))

Ppu_read(m, address) ==
    CASE address >= 32768 /\ address <= 40959 ->
            IF m.ppu_mode = "LCDOn3" THEN 255 ELSE Load(m.vram, address)
      [] address = 65344 -> m.lcdc
      [] address = 65345 ->
            m.stat + (IF m.lyc_is_ly THEN 4 ELSE 0) + Ppu_mode_bits(m.ppu_mode)
      [] address = 65346 -> m.scy
      [] address = 65347 -> m.scx
      [] address = 65348 -> m.ly
      [] address = 65349 -> m.lyc
      [] address = 65351 -> m.bg_palette
      [] OTHER -> -1

Ppu_owns_write(address) ==
    \/ address >= 32768 /\ address <= 40959
    \/ address \in {65344, 65345, 65346, 65347, 65349, 65351}

\* Stat::from_bits_truncate keeps bits 6..3
Ppu_write(m, address, value) ==
    CASE address >= 32768 /\ address <= 40959 ->
            IF m.ppu_mode # "LCDOn3"
            THEN [m EXCEPT !.vram = Store(@, address, value)]
            ELSE m
      [] address = 65344 -> [m EXCEPT !.lcdc = value]
      [] address = 65345 -> [m EXCEPT !.stat = (value % 128) - (value % 8)]
      [] address = 65346 -> [m EXCEPT !.scy = value]
      [] address = 65347 -> [m EXCEPT !.scx = value]
      [] address = 65349 -> [m EXCEPT !.lyc = value]
      [] address = 65351 -> [m EXCEPT !.bg_palette = value]

----------------------------------------------------------------------------
(* lib.rs: GameboyContext, the bus and the clock.                          *)

GameboyContext_new ==
    [clock_counter |-> 0,
     wram |-> EmptyArr, high_ram |-> EmptyArr, vram |-> EmptyArr,
     rom_bank |-> 1,
     serial_data |-> 0, serial_control |-> 0, serial_clock_counter |-> 0,
     serial_bit_counter |-> 0, serial_data_copy |-> 0,
     interrupt_master_enable |-> FALSE, interrupt_flag |-> 0,
     interrupt_enable |-> 0, ime_scheduled |-> FALSE,
     divider |-> 0, timer_counter |-> 0, timer_modulo |-> 0,
     timer_enabled |-> FALSE, timer_control |-> "Div1024",
     timer_was_high_last_tick |-> FALSE, timer_overflowed_last_tick |-> FALSE,
     x_clock |-> 0, x_pixel |-> 0, ly |-> 144, ppu_mode |-> "VBlank1",
     lcdc |-> 0, scx |-> 0, scy |-> 0, bg_palette |-> 0, lyc |-> 0, stat |-> 0,
     lyc_is_ly |-> FALSE, previous_stat_interrupt |-> FALSE,
     events |-> <<>>, panicked |-> "", rd |-> 0, res |-> 0, instr |-> "",
     next |-> <<>>, err |-> <<>>, poll |-> <<>>, sel |-> <<>>]

\* the first component, in the bus's order, that owns the address
BusLookup(m, addr) ==
    IF WorkRam_owns(addr) THEN Load(m.wram, addr - 49152)
    ELSE IF Serial_read(m, addr) # -1 THEN Serial_read(m, addr)
    ELSE IF Cartridge_read(m, addr) # -1 THEN Cartridge_read(m, addr)
    ELSE IF HighRam_owns(addr) THEN Load(m.high_ram, addr - 65408)
    ELSE IF InterruptController_read(m, addr) # -1 THEN InterruptController_read(m, addr)
    ELSE IF Timer_read(m, addr) # -1 THEN Timer_read(m, addr)
    ELSE Ppu_read(m, addr)

\* a slip: the read of an address without owner leaves no trace
MemoryContext_read_unrecorded(m, addr) ==
    Let(BusLookup(m, addr), LAMBDA found :
        IF found = -2 THEN Panic(m, "index out of bounds: rom bank")
        ELSE LET value == IF found = -1 THEN 255 ELSE found
             IN  [push_event(m, [type |-> "MemoryRead", address |-> addr, value |-> value])
                    EXCEPT !.rd = value])

MemoryContext_read(m, addr) ==
    Let(BusLookup(m, addr), LAMBDA found :
        IF found = -2 THEN Panic(m, "index out of bounds: rom bank")
        ELSE LET value == IF found = -1 THEN 255 ELSE found
             IN  Let((IF found = -1
                      THEN push_event(m, [type |-> "ReadFromNonMappedAddress", address |-> addr])
                      ELSE m), LAMBDA m1 :
                     [push_event(m1, [type |-> "MemoryRead", address |-> addr, value |-> value])
                        EXCEPT !.rd = value]))

BusStore(m, addr, value) ==
    IF WorkRam_owns(addr) THEN [m EXCEPT !.wram = Store(@, addr - 49152, value)]
    ELSE IF addr \in {65281, 65282} THEN Serial_write(m, addr, value)
    ELSE IF Cartridge_owns_write(addr) THEN Mbc1_write(m, addr, value)
    ELSE IF HighRam_owns(addr) THEN [m EXCEPT !.high_ram = Store(@, addr - 65408, value)]
    ELSE IF addr \in {65295, 65535} THEN InterruptController_write(m, addr, value)
    ELSE IF addr \in {65284, 65285, 65286, 65287} THEN Timer_write(m, addr, value)
    ELSE IF Ppu_owns_write(addr) THEN Ppu_write(m, addr, value)
    ELSE push_event(m, [type |-> "ReadFromNonMappedAddress", address |-> addr])

MemoryContext_write(m, addr, value) ==
    push_event(BusStore(m, addr, value),
               [type |-> "MemoryWritten", address |-> addr, value |-> value])

\* ClockContext::tick: one clock tick fans out to every clocked component
tick(m) ==
    IF m.panicked # "" THEN m
    ELSE Let(Serial_tick(Timer_tick(m)), LAMBDA m1 :
             IF m1.panicked # "" THEN m1
             ELSE [InterruptController_tick(Ppu_tick(m1)) EXCEPT !.clock_counter = @ + 1])

\* a slip: one tick for the machine cycle
tick_4_once(m) == tick(m)

tick_4(m) == tick(tick(tick(tick(m))))

\* GameboyContext's own raise_interrupt, which also records the event
GameboyContext_raise_interrupt(m, i) ==
    InterruptController_raise_interrupt(
        push_event(m, [type |-> "InterruptRaised", interrupt |-> i]), i)

----------------------------------------------------------------------------
(* cpu_execution/mod.rs: bus accesses of the execution engine.  Every      *)
(* access is four clock ticks with the bus access after the third.         *)

\* a slip: the bus is read when the four ticks are over
read_byte_at_late(m, addr) == MemoryContext_read(tick_4(m), addr)

read_byte_at(m, addr) ==
    tick(MemoryContext_read(tick(tick(tick(m))), addr))

read_byte_at_pc(m) == increment_pc(read_byte_at(m, m.pc))

\* the word is left in rd
read_word_at(m, addr) ==
    Let(read_byte_at(m, addr), LAMBDA m1 :
    Let(read_byte_at(m1, Wrap16(addr + 1)), LAMBDA m2 :
        [m2 EXCEPT !.rd = m2.rd * 256 + m1.rd]))

read_word_at_pc(m) ==
    Let(read_byte_at_pc(m), LAMBDA m1 :
    Let(read_byte_at_pc(m1), LAMBDA m2 :
        [m2 EXCEPT !.rd = m2.rd * 256 + m1.rd]))

write_byte_to(m, addr, b) ==
    tick(MemoryContext_write(tick(tick(tick(m))), addr, b))

\* a slip: the high byte goes out first
write_word_to_high_first(m, addr, w) ==
    write_byte_to(write_byte_to(m, Wrap16(addr + 1), w \div 256), addr, w % 256)

write_word_to(m, addr, w) ==
    write_byte_to(write_byte_to(m, addr, w % 256), Wrap16(addr + 1), w \div 256)

\* (a as u16).wrapping_add(b) for a: i8, given as its byte
add_i8_to_u16(a, b) == Wrap16((IF a >= 128 THEN a + 65280 ELSE a) + b)

get_first_opcode(m) == increment_pc(MemoryContext_read(m, m.pc))

CommonRegister_from_u8(byte) ==
    CASE byte = 0 -> "B" [] byte = 1 -> "C" [] byte = 2 -> "D" [] byte = 3 -> "E"
      [] byte = 4 -> "H" [] byte = 5 -> "L" [] byte = 6 -> "HLIndirect"
      [] byte = 7 -> "A"

JumpCondition_from_u8(b) ==
    CASE b = 0 -> "NZ" [] b = 1 -> "Z" [] b = 2 -> "NC" [] b = 3 -> "C"

ArithmeticOperation_from_u8(b) ==
    CASE b = 0 -> "AddA" [] b = 1 -> "AdcA" [] b = 2 -> "Sub" [] b = 3 -> "SbcA"
      [] b = 4 -> "And" [] b = 5 -> "Xor" [] b = 6 -> "Or" [] b = 7 -> "Cp"

RotationShiftOperation_from_u8(b) ==
    CASE b = 0 -> "Rlc" [] b = 1 -> "Rrc" [] b = 2 -> "Rl" [] b = 3 -> "Rr"
      [] b = 4 -> "Sla" [] b = 5 -> "Sra" [] b = 6 -> "Swap" [] b = 7 -> "Srl"

\* ResetVector::from_u8(y).address()
ResetVector_address(b) == b * 8

\* the Instruction an operation returns, by name
Named(m, name) == [m EXCEPT !.instr = name]

should_jump(m, cc) ==
    CASE cc = "NZ" -> ~HasFlag(m, FlagZ)
      [] cc = "Z" -> HasFlag(m, FlagZ)
      [] cc = "NC" -> ~HasFlag(m, FlagC)
      [] cc = "C" -> HasFlag(m, FlagC)

\* the value is left in rd
read_common_register(m, reg) ==
    IF reg = "HLIndirect" THEN read_byte_at(m, read_register16(m, "HL"))
    ELSE [m EXCEPT !.rd = read_register8(m, reg)]

write_common_register(m, reg, value) ==
    IF reg = "HLIndirect" THEN write_byte_to(m, read_register16(m, "HL"), value)
    ELSE write_register8(m, reg, value)

----------------------------------------------------------------------------
(* The arithmetic helpers; the result is left in res.                      *)

\* the four flags at once, None (-1) leaving a flag as it is
Flags4(m, z, n, h, c) ==
    LET pick(cur, new) == IF new = -1 THEN cur ELSE new
        b(flag) == IF HasFlag(m, flag) THEN 1 ELSE 0
    IN  [m EXCEPT !.f = 128 * pick(b(FlagZ), z) + 64 * pick(b(FlagN), n)
                        + 32 * pick(b(FlagH), h) + 16 * pick(b(FlagC), c)]

B2I(x) == IF x THEN 1 ELSE 0

add_8bit(m, a, b) ==
    LET res == Wrap8(a + b)
    IN  [Flags4(m, B2I(res = 0), 0, B2I((a % 16) + (b % 16) > 15), B2I(a + b > 255))
            EXCEPT !.res = res]

add_8bit_carry(m, a, b) ==
    Let(B2I(HasFlag(m, FlagC)), LAMBDA carry_in :
    LET res == Wrap8(a + b + carry_in)
    IN  [Flags4(m, B2I(res = 0), 0, B2I((a % 16) + (b % 16) + carry_in > 15),
                B2I(a + b + carry_in > 255))
            EXCEPT !.res = res])

sub(m, a, b) ==
    LET result == a - b
    IN  [Flags4(m, B2I(Wrap8(result) = 0), 1, B2I((a % 16) - (b % 16) < 0),
                B2I(result < 0))
            EXCEPT !.res = Wrap8(result)]

sub_carry(m, a, b) ==
    Let(B2I(HasFlag(m, FlagC)), LAMBDA carry :
    LET result == a - b - carry
    IN  [Flags4(m, B2I(Wrap8(result) = 0), 1,
                B2I((a % 16) - (b % 16) - carry < 0), B2I(result < 0))
            EXCEPT !.res = Wrap8(result)])

and(m, a, b) ==
    Let(And8(a, b), LAMBDA result :
        [Flags4(m, B2I(result = 0), 0, 1, 0) EXCEPT !.res = result])

or(m, a, b) ==
    Let(Or8(a, b), LAMBDA result :
        [Flags4(m, B2I(result = 0), 0, 0, 0) EXCEPT !.res = result])

xor(m, a, b) ==
    LET result == Xor8(a, b)
    IN  [Flags4(m, B2I(result = 0), 0, 0, 0) EXCEPT !.res = result]

alu(m, op, to_add) ==
    LET a == m.a
    IN  Let((CASE op = "AddA" -> add_8bit(m, a, to_add)
               [] op = "AdcA" -> add_8bit_carry(m, a, to_add)
               [] op = "Sub" -> sub(m, a, to_add)
               [] op = "SbcA" -> sub_carry(m, a, to_add)
               [] op = "And" -> and(m, a, to_add)
               [] op = "Xor" -> xor(m, a, to_add)
               [] op = "Or" -> or(m, a, to_add)
               [] op = "Cp" -> sub(m, a, to_add)), LAMBDA m1 :
            IF op # "Cp" THEN write_register8(m1, "A", m1.res) ELSE m1)

----------------------------------------------------------------------------
(* The instructions of x_is_0_tree, LD r,r and the ALU group.              *)

noop(m) == Named(m, "Nop")

ld_inn_sp(m) ==
    Let(read_word_at_pc(m), LAMBDA m1 :
        Named(write_word_to(m1, m1.rd, m1.sp), "LoadIndirectImmediate16SP"))

jr(m) ==
    Let(read_byte_at_pc(m), LAMBDA m1 :
    Let(tick_4(m1), LAMBDA m2 :
        Named(write_register16(m2, "PC", add_i8_to_u16(m1.rd, m2.pc)), "JumpRelative")))

jr_cc(m, cc) ==
    Let(read_byte_at_pc(m), LAMBDA m1 :
    Let(tick_4(m1), LAMBDA m2 :
        Named(IF should_jump(m1, cc)
              THEN write_register16(m2, "PC", add_i8_to_u16(m1.rd, m2.pc))
              ELSE m1,
              "JumpConditionalRelative")))

ld_rp_nn(m, reg) ==
    Let(read_word_at_pc(m), LAMBDA m1 :
        Named(write_register16(m1, reg, m1.rd), "LoadRegisterImmediate16"))

add_hl_rp(m, rp) ==
    Let(read_register16(m, rp), LAMBDA src :
    LET z == B2I(HasFlag(m, FlagZ))
    IN  Let(add_8bit(m, m.l, src % 256), LAMBDA m1 :
        Let(tick_4(write_register8(m1, "L", m1.res)), LAMBDA m2 :
        Let(add_8bit_carry(m2, m2.h, src \div 256), LAMBDA m3 :
        Let(write_register8(m3, "H", m3.res), LAMBDA m4 :
            Named(Flags4(m4, z, -1, -1, -1), "AddHLRegister"))))))

ld_irp_a(m, rp) ==
    Named(write_byte_to(m, read_register16(m, rp), m.a), "LoadIndirectRegisterA")

\* LD (HL+),A and LD (HL-),A: step is 1 or 65535 (wrapping_sub(1))
ld_hlp_a(m) ==
    Let(write_byte_to(m, read_register16(m, "HL"), m.a), LAMBDA m1 :
        Named(write_register16(m1, "HL", Wrap16(read_register16(m1, "HL") + 1)),
              "LoadIncrementHLIndirectA"))

ld_hlm_a(m) ==
    Let(write_byte_to(m, read_register16(m, "HL"), m.a), LAMBDA m1 :
        Named(write_register16(m1, "HL", Wrap16(read_register16(m1, "HL") + 65535)),
              "LoadDecrementHLIndirectA"))

ld_a_irp(m, rp) ==
    Let(read_byte_at(m, read_register16(m, rp)), LAMBDA m1 :
        Named(write_register8(m1, "A", m1.rd), "LoadAIndirectRegister"))

ld_a_hlp(m) ==
    Let(read_byte_at(m, read_register16(m, "HL")), LAMBDA m1 :
    Let(write_register16(m1, "HL", Wrap16(read_register16(m1, "HL") + 1)), LAMBDA m2 :
        Named(write_register8(m2, "A", m1.rd), "LoadAIncrementHLIndirect")))

ld_a_hlm(m) ==
    Let(read_byte_at(m, read_register16(m, "HL")), LAMBDA m1 :
    Let(write_register16(m1, "HL", Wrap16(read_register16(m1, "HL") + 65535)), LAMBDA m2 :
        Named(write_register8(m2, "A", m1.rd), "LoadADecrementHLIndirect")))

inc_16(m, rp) ==
    Named(tick_4(write_register16(m, rp, Wrap16(read_register16(m, rp) + 1))),
          "IncRegister16")

dec_16(m, rp) ==
    Named(tick_4(write_register16(m, rp, Wrap16(read_register16(m, rp) + 65535))),
          "DecRegister16")

inc(m, reg) ==
    Let(read_common_register(m, reg), LAMBDA m1 :
    LET val == m1.rd
        res == Wrap8(val + 1)
    IN  Let(Flags4(m1, B2I(res = 0), 0, B2I((val % 16) + 1 > 15), -1), LAMBDA m2 :
            Named(write_common_register(m2, reg, res), "IncRegister8")))

dec(m, reg) ==
    Let(read_common_register(m, reg), LAMBDA m1 :
    LET val == m1.rd
        res == Wrap8(val + 255)
    IN  Let(Flags4(m1, B2I(res = 0), 1, B2I(val % 16 = 0), -1), LAMBDA m2 :
            Named(write_common_register(m2, reg, res), "DecRegister8")))

ld_r_n(m, reg) ==
    Let(read_byte_at_pc(m), LAMBDA m1 :
        Named(write_common_register(m1, reg, m1.rd), "LoadRegisterImmediate8"))

\* the CB rotates and shifts: the new value and the bit moved to carry
rl(m, register) ==
    Let(read_common_register(m, register), LAMBDA m1 :
    LET a == m1.rd
    IN  Let(Wrap8(a * 2) + B2I(HasFlag(m1, FlagC)), LAMBDA res :
        Let(Flags4(m1, B2I(res = 0), 0, 0, a \div 128), LAMBDA m2 :
            Named(write_common_register(m2, register, res), "RotateShiftRegister"))))

rr(m, register) ==
    Let(read_common_register(m, register), LAMBDA m1 :
    LET a == m1.rd
    IN  Let((a \div 2) + 128 * B2I(HasFlag(m1, FlagC)), LAMBDA res :
        Let(Flags4(m1, B2I(res = 0), 0, 0, a % 2), LAMBDA m2 :
            Named(write_common_register(m2, register, res), "RotateShiftRegister"))))

rlc(m, register) ==
    Let(read_common_register(m, register), LAMBDA m1 :
    LET a == m1.rd
        res == Wrap8(a * 2) + (a \div 128)
    IN  Let(Flags4(m1, B2I(res = 0), 0, 0, a \div 128), LAMBDA m2 :
            Named(write_common_register(m2, register, res), "RotateShiftRegister")))

rrc(m, register) ==
    Let(read_common_register(m, register), LAMBDA m1 :
    LET a == m1.rd
        res == (a \div 2) + 128 * (a % 2)
    IN  Let(Flags4(m1, B2I(res = 0), 0, 0, a % 2), LAMBDA m2 :
            Named(write_common_register(m2, register, res), "RotateShiftRegister")))

sla(m, register) ==
    Let(read_common_register(m, register), LAMBDA m1 :
    LET a == m1.rd
        res == Wrap8(a * 2)
    IN  Let(Flags4(m1, B2I(res = 0), 0, 0, a \div 128), LAMBDA m2 :
            Named(write_common_register(m2, register, res), "RotateShiftRegister")))

sra(m, register) ==
    Let(read_common_register(m, register), LAMBDA m1 :
    LET a == m1.rd
        res == (a \div 2) + 128 * (a \div 128)
    IN  Let(Flags4(m1, B2I(res = 0), 0, 0, a % 2), LAMBDA m2 :
            Named(write_common_register(m2, register, res), "RotateShiftRegister")))

srl(m, register) ==
    Let(read_common_register(m, register), LAMBDA m1 :
    LET a == m1.rd
        res == a \div 2
    IN  Let(Flags4(m1, B2I(res = 0), 0, 0, a % 2), LAMBDA m2 :
            Named(write_common_register(m2, register, res), "RotateShiftRegister")))

swap(m, register) ==
    Let(read_common_register(m, register), LAMBDA m1 :
    LET a == m1.rd
        res == (a \div 16) + 16 * (a % 16)
    IN  Let(write_common_register(m1, register, res), LAMBDA m2 :
            Named(Flags4(m2, B2I(res = 0), 0, 0, 0), "RotateShiftRegister")))

rlca(m) == Named(Flags4(rlc(m, "A"), 0, -1, -1, -1), "RotateALeft")

rrca(m) == Named(Flags4(rrc(m, "A"), 0, -1, -1, -1), "RotateARight")

rla(m) == Named(Flags4(rl(m, "A"), 0, -1, -1, -1), "RotateALeftThroughCarry")

rra(m) == Named(Flags4(rr(m, "A"), 0, -1, -1, -1), "RotateARightThroughCarry")

\* a slip: the adjustment after a subtraction is made as after an addition
daa_adding(m) ==
    LET cf == HasFlag(m, FlagC)
        add60 == cf \/ m.a > 153
        a1 == IF add60 THEN Wrap8(m.a + 96) ELSE m.a
        a2 == IF HasFlag(m, FlagH) \/ (a1 % 16) > 9 THEN Wrap8(a1 + 6) ELSE a1
    IN  Named(Flags4(write_register8(m, "A", a2), B2I(a2 = 0), -1, 0, B2I(add60)),
              "DecimalAdjust")

daa(m) ==
    Let(HasFlag(m, FlagN), LAMBDA n :
    Let(HasFlag(m, FlagH), LAMBDA hf :
    Let(HasFlag(m, FlagC), LAMBDA cf :
    LET a0 == m.a
        add60 == ~n /\ (cf \/ a0 > 153)
    IN  Let((IF n THEN (IF cf THEN Wrap8(a0 + 160) ELSE a0)
             ELSE (IF add60 THEN Wrap8(a0 + 96) ELSE a0)), LAMBDA a1 :
        LET a2 == IF n THEN (IF hf THEN Wrap8(a1 + 250) ELSE a1)
                  ELSE (IF hf \/ (a1 % 16) > 9 THEN Wrap8(a1 + 6) ELSE a1)
            c == IF n THEN cf ELSE add60
        IN  Named(Flags4(write_register8(m, "A", a2), B2I(a2 = 0), -1, 0, B2I(c)),
                  "DecimalAdjust")))))

cpl(m) == Named(Flags4(write_register8(m, "A", 255 - m.a), -1, 1, 1, -1), "Complement")

scf(m) == Named(Flags4(m, -1, 0, 0, 1), "Scf")

ccf(m) == Named(Flags4(m, -1, 0, 0, 1 - B2I(HasFlag(m, FlagC))), "Ccf")

halt(m) == Named([m EXCEPT !.state = "Halted"], "Halt")

ld_r_r(m, target, source) ==
    Let((IF target = "B" /\ source = "B"
         THEN push_event(m, [type |-> "DebugTrigger"])
         ELSE m), LAMBDA m0 :
    Let(read_common_register(m0, source), LAMBDA m1 :
        Named(write_common_register(m1, target, m1.rd), "LoadRegisterRegister")))

alu_reg(m, op, reg) ==
    Let(read_common_register(m, reg), LAMBDA m1 :
        Named(alu(m1, op, m1.rd), "AluRegister"))

alu_imm(m, op) ==
    Let(read_byte_at_pc(m), LAMBDA m1 :
        Named(alu(m1, op, m1.rd), "AluImmediate"))

----------------------------------------------------------------------------
(* The instructions of x_is_3_tree and the CB prefix.                      *)

\* a slip: POP leaves the stack pointer where it was
pop_leaving_sp(m, register) ==
    Let(read_word_at(m, m.sp), LAMBDA m1 :
        Named(write_register16(m1, register, m1.rd), "Pop"))

pop(m, register) ==
    LET sp == m.sp
    IN  Let(read_word_at(m, sp), LAMBDA m1 :
        Let(write_register16(m1, "SP", Wrap16(sp + 2)), LAMBDA m2 :
            Named(write_register16(m2, register, m1.rd), "Pop")))

\* a slip: PUSH without its internal cycle
push_hasty(m, register) ==
    LET sp == m.sp
    IN  Let(write_word_to(m, Wrap16(sp + 65534), read_register16(m, register)), LAMBDA m2 :
            Named(write_register16(m2, "SP", Wrap16(sp + 65534)), "Push"))

push(m, register) ==
    LET sp == m.sp
    IN  Let(tick_4(m), LAMBDA m1 :
        Let(write_word_to(m1, Wrap16(sp + 65534), read_register16(m1, register)), LAMBDA m2 :
            Named(write_register16(m2, "SP", Wrap16(sp + 65534)), "Push")))

ret(m) == Named(tick_4(pop(m, "PC")), "Return")

ret_cc(m, cc) ==
    Let(tick_4(m), LAMBDA m1 :
        Named(IF should_jump(m1, cc) THEN tick_4(pop(m1, "PC")) ELSE m1,
              "ReturnConditional"))

\* a slip: RETI with the delay of EI
reti_scheduling(m) == Named(schedule_ime_enable(ret(m)), "ReturnFromInterrupt")

reti(m) == Named(enable_interrupts(ret(m)), "ReturnFromInterrupt")

ld_io_imm_a(m) ==
    LET val == m.a
    IN  Let(read_byte_at_pc(m), LAMBDA m1 :
            Named(write_byte_to(m1, 65280 + m1.rd, val), "LoadIOIndirectImmediate8A"))

ld_io_a_imm(m) ==
    Let(read_byte_at_pc(m), LAMBDA m1 :
    Let(read_byte_at(m1, 65280 + m1.rd), LAMBDA m2 :
        Named(write_register8(m2, "A", m2.rd), "LoadIOAIndirectImmediate8")))

\* the sum is left in res
add_signed_to_sp(m, imm) ==
    LET sp == m.sp
        lower == sp % 256
        h == (lower % 16) + (imm % 16) > 15
        c == lower + imm > 255
    IN  Let(tick_4(m), LAMBDA m1 :
            [Flags4(m1, 0, 0, B2I(h), B2I(c)) EXCEPT !.res = add_i8_to_u16(imm, sp)])

add_sp_d(m) ==
    Let(read_byte_at_pc(m), LAMBDA m1 :
    Let(add_signed_to_sp(tick_4(m1), m1.rd), LAMBDA m2 :
        Named(write_register16(m2, "SP", m2.res), "AddSPImmediate")))

ld_hl_sp_d(m) ==
    Let(read_byte_at_pc(m), LAMBDA m1 :
    Let(add_signed_to_sp(m1, m1.rd), LAMBDA m2 :
        Named(write_register16(m2, "HL", m2.res), "LoadHLSPImmediate")))

ld_sp_hl(m) ==
    Named(tick_4(write_register16(m, "SP", read_register16(m, "HL"))), "LoadSPHL")

jp_cc(m, cc) ==
    Let(read_word_at_pc(m), LAMBDA m1 :
        Named(IF should_jump(m1, cc)
              THEN write_register16(tick_4(m1), "PC", m1.rd)
              ELSE m1,
              "JumpConditionalImmediate"))

ld_io_c_a(m) == Named(write_byte_to(m, 65280 + m.c, m.a), "LoadIOIndirectCA")

ld_io_a_c(m) ==
    Let(read_byte_at(m, 65280 + m.c), LAMBDA m1 :
        Named(write_register8(m1, "A", m1.rd), "LoadIOAIndirectC"))

ld_inn_a(m) ==
    Let(read_word_at_pc(m), LAMBDA m1 :
        Named(write_byte_to(m1, m1.rd, m1.a), "LoadIndirectImmediate16A"))

ld_a_inn(m) ==
    Let(read_word_at_pc(m), LAMBDA m1 :
    Let(read_byte_at(m1, m1.rd), LAMBDA m2 :
        Named(write_register8(m2, "A", m2.rd), "LoadAIndirectImmediate16")))

jp(m) ==
    Let(read_word_at_pc(m), LAMBDA m1 :
        Named(write_register16(tick_4(m1), "PC", m1.rd), "JumpImmediate"))

jp_hl(m) == Named(write_register16(m, "PC", read_register16(m, "HL")), "JumpHL")

di(m) == Named(disable_interrupts(m), "DI")

\* a slip: EI without its delay
ei_at_once(m) == Named(enable_interrupts(m), "EI")

ei(m) == Named(schedule_ime_enable(m), "EI")

call(m) ==
    Let(read_word_at_pc(m), LAMBDA m1 :
        Named(write_register16(push(m1, "PC"), "PC", m1.rd), "CallImmediate"))

call_cc(m, cc) ==
    Let(read_word_at_pc(m), LAMBDA m1 :
        Named(IF should_jump(m1, cc)
              THEN write_register16(push(m1, "PC"), "PC", m1.rd)
              ELSE m1,
              "CallConditionalImmediate"))

rst(m, y) ==
    Named(write_register16(push(m, "PC"), "PC", ResetVector_address(y)), "Reset")

rotate_shift(m, op, reg) ==
    CASE op = "Rlc" -> rlc(m, reg)
      [] op = "Rrc" -> rrc(m, reg)
      [] op = "Rl" -> rl(m, reg)
      [] op = "Rr" -> rr(m, reg)
      [] op = "Sla" -> sla(m, reg)
      [] op = "Sra" -> sra(m, reg)
      [] op = "Swap" -> swap(m, reg)
      [] op = "Srl" -> srl(m, reg)

bit(m, n, reg) ==
    Let(read_common_register(m, reg), LAMBDA m1 :
        Named(Flags4(m1, 1 - Bit(m1.rd, n), 0, 1, -1), "BitRegister"))

set(m, n, reg) ==
    Let(read_common_register(m, reg), LAMBDA m1 :
    LET value == IF Bit(m1.rd, n) = 1 THEN m1.rd ELSE m1.rd + 2 ^ n
    IN  Named(write_common_register(m1, reg, value), "SetRegister"))

res(m, n, reg) ==
    Let(read_common_register(m, reg), LAMBDA m1 :
    LET value == IF Bit(m1.rd, n) = 1 THEN m1.rd - 2 ^ n ELSE m1.rd
    IN  Named(write_common_register(m1, reg, value), "ResRegister"))

cb_prefix(m) ==
    Let(read_byte_at_pc(m), LAMBDA m1 :
    LET opcode == m1.rd
        x == opcode \div 64
        y == (opcode \div 8) % 8
        z == opcode % 8
    IN  CASE x = 0 -> rotate_shift(m1, RotationShiftOperation_from_u8(y),
                                   CommonRegister_from_u8(z))
          [] x = 1 -> bit(m1, y, CommonRegister_from_u8(z))
          [] x = 2 -> res(m1, y, CommonRegister_from_u8(z))
          [] x = 3 -> set(m1, y, CommonRegister_from_u8(z)))

----------------------------------------------------------------------------
(* Decode.                                                                 *)

Opcode(b) == <<"Opcode", b>>

StartInterruptRoutine == <<"StartInterruptRoutine">>

InvalidOpcode(b) == <<"InvalidOpcode", b>>

x_is_0_tree(m, y, z, p, q) ==
    CASE z = 0 ->
            (CASE y = 0 -> noop(m)
               [] y = 1 -> ld_inn_sp(m)
               [] y = 2 -> Panic(m, "STOP")
               [] y = 3 -> jr(m)
               [] OTHER -> jr_cc(m, JumpCondition_from_u8(y - 4)))
      [] z = 1 ->
            IF q = 0 THEN ld_rp_nn(m, from_byte_sp(p)) ELSE add_hl_rp(m, from_byte_sp(p))
      [] z = 2 ->
            IF q = 0
            THEN (CASE p = 0 -> ld_irp_a(m, "BC")
                    [] p = 1 -> ld_irp_a(m, "DE")
                    [] p = 2 -> ld_hlp_a(m)
                    [] p = 3 -> ld_hlm_a(m))
            ELSE (CASE p = 0 -> ld_a_irp(m, "BC")
                    [] p = 1 -> ld_a_irp(m, "DE")
                    [] p = 2 -> ld_a_hlp(m)
                    [] p = 3 -> ld_a_hlm(m))
      [] z = 3 ->
            IF q = 0 THEN inc_16(m, from_byte_sp(p)) ELSE dec_16(m, from_byte_sp(p))
      [] z = 4 -> inc(m, CommonRegister_from_u8(y))
      [] z = 5 -> dec(m, CommonRegister_from_u8(y))
      [] z = 6 -> ld_r_n(m, CommonRegister_from_u8(y))
      [] z = 7 ->
            (CASE y = 0 -> rlca(m)
               [] y = 1 -> rrca(m)
               [] y = 2 -> rla(m)
               [] y = 3 -> rra(m)
               [] y = 4 -> daa(m)
               [] y = 5 -> cpl(m)
               [] y = 6 -> scf(m)
               [] y = 7 -> ccf(m))

\* a slip: the operand byte is consumed before the error is reported
Invalid_consuming(m, opcode) == [increment_pc(m) EXCEPT !.err = InvalidOpcode(opcode)]

\* Err(InvalidOpcode(opcode)) is left in err, with nothing else done
Invalid(m, opcode) == [m EXCEPT !.err = InvalidOpcode(opcode)]

x_is_3_tree(m, opcode, y, z, p, q) ==
    CASE z = 0 ->
            (CASE y <= 3 -> ret_cc(m, JumpCondition_from_u8(y))
               [] y = 4 -> ld_io_imm_a(m)
               [] y = 5 -> add_sp_d(m)
               [] y = 6 -> ld_io_a_imm(m)
               [] y = 7 -> ld_hl_sp_d(m))
      [] z = 1 ->
            IF q = 0 THEN pop(m, from_byte_af(p))
            ELSE (CASE p = 0 -> ret(m)
                    [] p = 1 -> reti(m)
                    [] p = 2 -> jp_hl(m)
                    [] p = 3 -> ld_sp_hl(m))
      [] z = 2 ->
            (CASE y <= 3 -> jp_cc(m, JumpCondition_from_u8(y))
               [] y = 4 -> ld_io_c_a(m)
               [] y = 5 -> ld_inn_a(m)
               [] y = 6 -> ld_io_a_c(m)
               [] y = 7 -> ld_a_inn(m))
      [] z = 3 ->
            (CASE y = 0 -> jp(m)
               [] y = 1 -> cb_prefix(m)
               [] y \in {2, 3, 4, 5} -> Invalid(m, opcode)
               [] y = 6 -> di(m)
               [] y = 7 -> ei(m))
      [] z = 4 ->
            IF y <= 3 THEN call_cc(m, JumpCondition_from_u8(y)) ELSE Invalid(m, opcode)
      [] z = 5 ->
            IF q = 0 THEN push(m, from_byte_af(p))
            ELSE IF p = 0 THEN call(m) ELSE Invalid(m, opcode)
      [] z = 6 -> alu_imm(m, ArithmeticOperation_from_u8(y))
      [] z = 7 -> rst(m, y)

\* the machine as the interrupt poll at the end of an instruction sees it
\* (a history field: nothing reads it)
Polled(m) ==
    [m EXCEPT !.poll = [ime |-> m.interrupt_master_enable,
                        iflag |-> m.interrupt_flag, ie |-> m.interrupt_enable,
                        pc |-> m.pc, clock |-> m.clock_counter]]

CpuOf(m) ==
    [a |-> m.a, f |-> m.f, b |-> m.b, c |-> m.c, d |-> m.d, e |-> m.e,
     h |-> m.h, l |-> m.l, sp |-> m.sp, pc |-> m.pc, state |-> m.state]

decode_execute_fetch(m, opcode) ==
    LET x == opcode \div 64
        y == (opcode \div 8) % 8
        z == opcode % 8
        p == y \div 2
        q == y % 2
    IN  Let((CASE x = 0 -> x_is_0_tree(m, y, z, p, q)
               [] x = 1 ->
                   IF CommonRegister_from_u8(y) = "HLIndirect"
                      /\ CommonRegister_from_u8(z) = "HLIndirect"
                   THEN halt(m)
                   ELSE ld_r_r(m, CommonRegister_from_u8(y), CommonRegister_from_u8(z))
               [] x = 2 ->
                   alu_reg(m, ArithmeticOperation_from_u8(y), CommonRegister_from_u8(z))
               [] x = 3 -> x_is_3_tree(m, opcode, y, z, p, q)), LAMBDA m1 :
        Let(Polled(push_event(m1, [type |-> "InstructionExecuted", opcode |-> opcode,
                                   instruction |-> m1.instr, new_pc |-> m1.pc,
                                   cpu |-> CpuOf(m1)])), LAMBDA m2 :
            IF m1.err # <<>> THEN m1
            ELSE IF should_start_interrupt_routine(m2)
                 THEN [m2 EXCEPT !.next = StartInterruptRoutine]
                 ELSE Let(read_byte_at_pc(m2), LAMBDA m3 :
                          [m3 EXCEPT !.next = Opcode(m3.rd)])))

\* the interrupt registers as the routine finds them when it selects the
\* interrupt to service (a history field: nothing reads it)
Selecting(m) ==
    [m EXCEPT !.sel = [iflag |-> m.interrupt_flag, ie |-> m.interrupt_enable,
                       after |-> m.interrupt_flag]]

\* IF as the routine leaves it, before the closing fetch (a history field)
Acknowledged(m) == [m EXCEPT !.sel.after = m.interrupt_flag]

\* a slip: the clock stands still while the CPU is halted
halted_stopped(m, original_next_op) ==
    Let(push_event(m, [type |-> "Halted"]), LAMBDA m1 :
        IF should_cancel_halt(m1)
        THEN Let([m1 EXCEPT !.state = "Running"], LAMBDA m2 :
                 IF should_start_interrupt_routine(m2)
                 THEN [m2 EXCEPT !.next = StartInterruptRoutine]
                 ELSE [m2 EXCEPT !.next = original_next_op])
        ELSE [m1 EXCEPT !.next = original_next_op])

\* a slip: the halt is always cancelled into the preserved operation
halted_unpolled(m, original_next_op) ==
    Let(tick_4(push_event(m, [type |-> "Halted"])), LAMBDA m1 :
        IF should_cancel_halt(m1)
        THEN Let([m1 EXCEPT !.state = "Running"], LAMBDA m2 :
                 IF original_next_op = StartInterruptRoutine
                 THEN Panic(m2, "assertion failed: original_next_op != StartInterruptRoutine")
                 ELSE [m2 EXCEPT !.next = original_next_op])
        ELSE [m1 EXCEPT !.next = original_next_op])

halted(m, original_next_op) ==
    Let(tick_4(push_event(m, [type |-> "Halted"])), LAMBDA m1 :
        IF should_cancel_halt(m1)
        THEN Let([m1 EXCEPT !.state = "Running"], LAMBDA m2 :
                 IF should_start_interrupt_routine(m2)
                 THEN [m2 EXCEPT !.next = StartInterruptRoutine]
                 ELSE IF original_next_op = StartInterruptRoutine
                      THEN Panic(m2, "assertion failed: original_next_op != StartInterruptRoutine")
                      ELSE [m2 EXCEPT !.next = original_next_op])
        ELSE [m1 EXCEPT !.next = original_next_op])

\* a slip: the routine leaves the interrupts enabled
start_interrupt_routine_enabled(m) ==
    Let(tick_4(push_event(m, [type |-> "InterruptRoutineStarted"])), LAMBDA m1 :
    Let(Selecting(push(m1, "PC")), LAMBDA m2 :
    Let(get_highest_priority_interrupt(m2), LAMBDA interrupt :
        IF interrupt = "None"
        THEN Panic(m2, "Started interrupt handler but no interrupt pending")
        ELSE Let(Acknowledged(unraise_interrupt(m2, interrupt)), LAMBDA m3 :
             Let(write_register16(m3, "PC", handler_address(interrupt)), LAMBDA m4 :
             Let(push_event(m4, [type |-> "InterruptRoutineFinished",
                                 interrupt |-> interrupt]), LAMBDA m5 :
             Let(read_byte_at_pc(m5), LAMBDA m6 :
                 [m6 EXCEPT !.next = Opcode(m6.rd)])))))))

start_interrupt_routine(m) ==
    Let(tick_4(push_event(m, [type |-> "InterruptRoutineStarted"])), LAMBDA m1 :
    Let(Selecting(push(m1, "PC")), LAMBDA m2 :
    Let(get_highest_priority_interrupt(m2), LAMBDA interrupt :
        IF interrupt = "None"
        THEN Panic(m2, "Started interrupt handler but no interrupt pending")
        ELSE Let(disable_interrupts(Acknowledged(unraise_interrupt(m2, interrupt))), LAMBDA m3 :
             Let(write_register16(m3, "PC", handler_address(interrupt)), LAMBDA m4 :
             Let(push_event(m4, [type |-> "InterruptRoutineFinished",
                                 interrupt |-> interrupt]), LAMBDA m5 :
             Let(read_byte_at_pc(m5), LAMBDA m6 :
                 [m6 EXCEPT !.next = Opcode(m6.rd)])))))))

handle_next(m, next_op) ==
    IF m.state = "Running"
    THEN IF next_op[1] = "Opcode"
         THEN decode_execute_fetch(m, next_op[2])
         ELSE start_interrupt_routine(m)
    ELSE halted(m, next_op)

----------------------------------------------------------------------------
(* lib.rs: GameBoy, the step entry point.                                  *)

\* the values handed from one operator to the next do not outlive a step
Settled(m) ==
    [m EXCEPT !.events = <<>>, !.rd = 0, !.res = 0, !.instr = "",
              !.next = <<>>, !.err = <<>>, !.poll = <<>>, !.sel = <<>>]

\* GameBoy::new: the machine, with the first opcode in rd
GameBoy_new == get_first_opcode(after_boot_rom @@ GameboyContext_new)

\* a slip: the clock counted in m-cycles
get_elapsed_cycles_in_m_cycles(m) == m.clock_counter \div 4

get_elapsed_cycles(m) == m.clock_counter

\* mem::replace(&mut self.context.events, ...)
take_events(m) == m.events

NoHistory ==
    [steps |-> 0, pre |-> <<>>, op |-> <<>>, instr |-> "", poll |-> <<>>,
     sel |-> <<>>, prev_instr |-> "", prev_ime |-> FALSE,
     errors |-> <<>>, vectors |-> <<>>,
     last |-> "", since |-> -1, wrapped |-> FALSE, wrapped_before |-> FALSE,
     since_di |-> -1, ei_di |-> FALSE, prev_poll |-> <<>>,
     start |-> 0, incs |-> 0, w |-> <<>>, prev_w |-> <<>>,
     high |-> FALSE, prev_high |-> FALSE, enabled |-> FALSE, prev_enabled |-> FALSE,
     bank |-> -1, before |-> <<>>, prev_op |-> <<>>, halt_at |-> -1,
     since_routine |-> -1, latched |-> FALSE, inc |-> FALSE, prev_inc |-> FALSE,
     halted_steps |-> 0]

\* the programs a cartridge may hold: code at base, fill everywhere else
Cartridge(kind, banks, base, code, fill) ==
    [kind |-> kind, banks |-> banks, base |-> base, code |-> code, fill |-> fill]

InitWith(roms) ==
    /\ rom \in roms
    /\ gb = [Settled(GameBoy_new) EXCEPT !.events = GameBoy_new.events]
    /\ next_operation = Opcode(GameBoy_new.rd)
    /\ events = <<>>
    /\ outcome = <<"None">>
    /\ hist = NoHistory

\* the interrupt a routine vectored to, from its InterruptRoutineFinished
\* event, with the interrupts that were then enabled and pending
VectoredTo(m) ==
    LET found == {i \in 1..Len(m.events) : m.events[i].type = "InterruptRoutineFinished"}
    IN  IF found = {} THEN <<>>
        ELSE <<[interrupt |-> m.events[CHOOSE i \in found : TRUE].interrupt,
                pending |-> And8(m.sel.iflag, m.sel.ie)]>>

\* the instructions executed since the last DI with no EI or RETI after it
\* (-1 when there is none)
SinceDi(m, n) ==
    IF m.poll = <<>> THEN n
    ELSE IF m.instr = "DI" THEN 0
    ELSE IF m.instr \in {"EI", "ReturnFromInterrupt"} THEN -1
    ELSE IF n >= 0 THEN n + 1
    ELSE n

\* the steps taken since the last interrupt routine with no EI or RETI
\* executed after it (-1 when there is none)
SinceRoutine(m, n) ==
    IF gb.state = "Running" /\ next_operation = StartInterruptRoutine THEN 0
    ELSE IF m.poll # <<>> /\ m.instr \in {"EI", "ReturnFromInterrupt"} THEN -1
    ELSE IF n >= 0 THEN n + 1
    ELSE n

Recorded(m) ==
    [hist EXCEPT !.steps = @ + 1, !.pre = gb, !.op = next_operation,
                 !.instr = IF m.poll = <<>> THEN "" ELSE m.instr,
                 !.poll = m.poll, !.sel = m.sel,
                 !.prev_instr = hist.instr,
                 !.prev_ime = IF hist.pre = <<>> THEN FALSE
                              ELSE hist.pre.interrupt_master_enable,
                 !.errors = IF m.err = <<>> THEN @ ELSE Append(@, m.err),
                 !.vectors = @ \o VectoredTo(m),
                 !.since_di = SinceDi(m, @),
                 !.ei_di = IF m.poll # <<>> /\ m.instr = "DI" THEN hist.instr = "EI" ELSE @,
                 !.prev_poll = hist.poll,
                 !.before = IF hist.pre = <<>> THEN <<>> ELSE CpuOf(hist.pre),
                 !.prev_op = hist.op,
                 !.halt_at = IF m.poll # <<>> /\ m.instr = "Halt"
                             THEN Wrap16(gb.pc + 65535) ELSE @,
                 !.since_routine = SinceRoutine(m, @),
                 !.halted_steps = IF gb.state = "Halted" THEN @ + 1 ELSE 0,
                 !.latched = IF gb.state = "Running"
                                /\ next_operation = StartInterruptRoutine
                             THEN gb.ime_scheduled ELSE @]

\* a slip: the failed opcode is skipped
NextAfter_skipping(m, current) == IF m.err = <<>> THEN m.next ELSE Opcode(0)

\* .map(|no| self.next_operation = no): only a success moves on
NextAfter(m, current) == IF m.err = <<>> THEN m.next ELSE current

\* GameBoy::execute_operation.  A panic unwinds out of the call: the process
\* is gone, and nothing of the machine can be observed afterwards.
execute_operation ==
    \E m \in {handle_next(gb, next_operation)} :
        IF m.panicked # ""
        THEN /\ gb' = [gb EXCEPT !.panicked = m.panicked]
             /\ outcome' = <<"Panic", m.panicked>>
             /\ events' = <<>>
             /\ hist' = [hist EXCEPT !.steps = @ + 1, !.pre = gb, !.op = next_operation,
                                     !.instr = "", !.prev_instr = hist.instr,
                                     !.prev_poll = hist.poll]
             /\ UNCHANGED <<rom, next_operation>>
        ELSE /\ gb' = Settled(m)
             /\ next_operation' = NextAfter(m, next_operation)
             /\ events' = take_events(m)
             /\ outcome' = IF m.err = <<>> THEN <<"Ok">> ELSE <<"Err", m.err>>
             /\ hist' = Recorded(m)
             /\ UNCHANGED rom

MaxSteps == 16

Step ==
    /\ gb.panicked = ""
    /\ hist.steps < MaxSteps
    /\ execute_operation

----------------------------------------------------------------------------
(* Programs.                                                               *)

LD_A(n) == <<62, n>>

LDH_A(port) == <<224, port>>

LD_SP(nn) == <<49, nn % 256, nn \div 256>>

EI == <<251>>

DI == <<243>>

HALT == <<118>>

NOP == <<0>>

RETI == <<217>>

LDH_R(port) == <<240, port>>

LD_NN_SP(nn) == <<8, nn % 256, nn \div 256>>

CALL(nn) == <<205, nn % 256, nn \div 256>>

RST_08 == <<207>>

PUSH_BC == <<197>>

POP_BC == <<193>>

RET == <<201>>

\* n calls in a row, the one at address at first, each of the next address
RECURSIVE CallChain(_, _)
CallChain(n, at) == IF n = 0 THEN <<>> ELSE CALL(at + 3) \o CallChain(n - 1, at + 3)

\* IE and IF are set up, interrupts are enabled and two instructions follow
Following ==
    {NOP, EI, DI, HALT, RETI, LD_A(0) \o LDH_A(15), LD_A(0) \o LDH_A(255), <<197>>}

DelayRoms ==
    {Cartridge("RomOnly", 2, 256,
               LD_A(ie) \o LDH_A(255) \o LD_A(if) \o LDH_A(15) \o EI \o x \o y, fill) :
        ie \in {31, 4}, if \in {31, 5, 0}, x \in Following, y \in {NOP, EI, HALT},
        fill \in {0, 217}}

\* the stack is moved before the interrupt is taken
StackRoms ==
    {Cartridge("RomOnly", 2, 256,
               pad \o LD_SP(sp) \o LD_A(ie) \o LDH_A(255) \o LD_A(if) \o LDH_A(15)
               \o EI \o NOP, fill) :
        pad \in {<<>>, NOP \o NOP \o NOP},
        sp \in {65534, 53248, 1, 65297, 16384, 65280, 57344, 65286}, ie \in {31, 4},
        if \in {31, 4}, fill \in {0, 251}}

\* the timer runs at its shortest period and the program halts
TimerRoms ==
    {Cartridge("RomOnly", 2, 256,
               LD_A(tma) \o LDH_A(6) \o LDH_A(5) \o LD_A(5) \o LDH_A(7)
               \o LD_A(ie) \o LDH_A(255) \o x \o HALT \o NOP, fill) :
        tma \in {255, 253}, ie \in {4, 0, 27}, x \in {EI, NOP, DI}, fill \in {0, 217}}

\* the timer runs at its shortest period and its registers are read and
\* written at every distance from the tick that increments TIMA
AccessRoms ==
    {Cartridge("RomOnly", 2, 256,
               LD_A(5) \o LDH_A(7) \o pad \o LDH_R(port) \o LDH_A(4) \o LDH_R(4), fill) :
        pad \in {<<>>, NOP, NOP \o NOP}, port \in {5, 4, 7, 15, 0}, fill \in {0}}

\* DIV is read around its first increment, 256 ticks after power on
DivRoms ==
    {Cartridge("RomOnly", 2, 256, CallChain(10, 256) \o pad \o LDH_R(4), fill) :
        pad \in {NOP, NOP \o NOP, NOP \o NOP \o NOP}, fill \in {0}}

\* words are written to RAM, to the timer, to IF and IE, and to ROM
WordRoms ==
    {Cartridge("RomOnly", 2, 256, LD_SP(sp) \o x \o POP_BC \o RET, fill) :
        sp \in {65534, 65286, 53248, 0, 65297, 16384},
        x \in {PUSH_BC, CALL(264), RST_08, LD_NN_SP(65284), LD_NN_SP(49152),
               LD_NN_SP(65535)},
        fill \in {0, 201}}

LD_BC(nn) == <<1, nn % 256, nn \div 256>>

LD_DE(nn) == <<17, nn % 256, nn \div 256>>

LD_HL(nn) == <<33, nn % 256, nn \div 256>>

ADD_A_A == <<135>>

SCF == <<55>>

INC_A == <<60>>

\* PUSH rr and POP rr of pair 0..3 (BC, DE, HL, AF)
PUSH(pair) == <<197 + 16 * pair>>

POP(pair) == <<193 + 16 * pair>>

\* a register pair is loaded, or A and the flags are set, then pushed and
\* popped with the stack in work RAM, in high RAM, and elsewhere
PushPopRoms ==
    {Cartridge("RomOnly", 2, 256, LD_SP(sp) \o load \o PUSH(pair) \o POP(pair), 0) :
        sp \in {65534, 53248, 65410, 57344, 49153, 0, 65297, 16384},
        load \in {LD_BC(4847), LD_DE(65280) \o LD_HL(43605), LD_A(128) \o ADD_A_A,
                  LD_A(60) \o SCF, LD_A(15) \o INC_A},
        pair \in 0..3}

Roms ==
    DelayRoms \cup StackRoms \cup TimerRoms \cup AccessRoms \cup DivRoms \cup WordRoms
    \cup PushPopRoms

Init == InitWith(Roms)

Next == Step

Spec == Init /\ [][Next]_vars

----------------------------------------------------------------------------
(* Every opcode byte as the pending operation, under SpecDecode.           *)

JP(nn) == <<195, nn % 256, nn \div 256>>

\* an opcode is stored in the last byte of high RAM and executed there, so
\* that its operands are IE and the first bytes of the ROM
WrapRoms ==
    {Cartridge("RomOnly", 2, 256, LD_A(op) \o LDH_A(254) \o JP(65534), fill) :
        op \in {0, 62, 1, 194, 202, 24, 203}, fill \in {0, 211}}

DecodeRoms ==
    {Cartridge("RomOnly", 2, 256, pre \o <<op>>, fill) :
        op \in 0..255,
        pre \in {<<>>, LD_A(31) \o LDH_A(255) \o LDH_A(15) \o EI,
                 LD_SP(53248) \o LD_BC(4847) \o PUSH(0),
                 LD_A(128) \o ADD_A_A},
        fill \in {0, 211}}
    \cup WrapRoms

InitDecode == InitWith(DecodeRoms)

SpecDecode == InitDecode /\ [][Next]_vars

----------------------------------------------------------------------------
(* The timer on its own, ticked and written as the bus does, under         *)
(* SpecTimer.                                                              *)

MaxTicks == 19

TimerWrites == {<<65284, 0>>, <<65285, 255>>, <<65286, 171>>, <<65287, 5>>, <<65287, 1>>}

\* the start of the reload scenario: TIMA=0xFF, TMA=0xAB, TAC=0x05, divider 0
ScenarioStart(m) ==
    /\ m.timer_counter = 255 /\ m.timer_modulo = 171
    /\ m.timer_enabled /\ m.timer_control = "Div16"
    /\ m.divider = 0 /\ m.clock_counter = 0
    /\ ~m.timer_was_high_last_tick /\ ~m.timer_overflowed_last_tick
    /\ m.interrupt_flag = 0

\* this tick increments TIMA (the observed divider bit, gated by enable,
\* falls) from 0xFF
WrapsOnTick(m) ==
    /\ m.timer_was_high_last_tick
    /\ ~(m.timer_enabled
         /\ Masked(Wrap16(m.divider + 1), TimerControl_mask(m.timer_control)))
    /\ (IF m.timer_overflowed_last_tick THEN m.timer_modulo ELSE m.timer_counter) = 255

TimerTick ==
    /\ hist.steps < MaxTicks
    /\ gb' = Timer_tick(gb)
    /\ hist' = [hist EXCEPT !.steps = @ + 1, !.pre = gb, !.last = "tick",
                            !.since = IF @ >= 0 THEN @ + 1 ELSE @,
                            !.wrapped = WrapsOnTick(gb),
                            !.wrapped_before = hist.wrapped,
                            !.w = <<>>, !.prev_w = hist.w]
    /\ UNCHANGED <<rom, next_operation, events, outcome>>

TimerWrite ==
    \E w \in TimerWrites :
        /\ gb' = Timer_write(gb, w[1], w[2])
        /\ hist' = [hist EXCEPT !.pre = gb, !.last = "write",
                                !.since = IF ScenarioStart(gb') THEN 0 ELSE -1,
                                !.w = w]
        /\ UNCHANGED <<rom, next_operation, events, outcome>>

\* the CPU acknowledges by writing 0 to IF
FlagWrite ==
    /\ gb.interrupt_flag # 0
    /\ gb' = InterruptController_write(gb, 65295, 0)
    /\ hist' = [hist EXCEPT !.pre = gb, !.last = "write", !.since = -1]
    /\ UNCHANGED <<rom, next_operation, events, outcome>>

InitTimer == InitWith({Cartridge("RomOnly", 2, 256, <<>>, 0)})

NextTimer == TimerTick \/ TimerWrite \/ FlagWrite

SpecTimer == InitTimer /\ [][NextTimer]_vars

----------------------------------------------------------------------------
(* The divider and TAC written between ticks, under SpecTac.               *)

MaxTacTicks == 6

\* DIV with any value, TIMA, and TAC with every clock select, enabled or not
TacWrites ==
    {<<65284, 0>>, <<65284, 77>>, <<65285, 255>>,
     <<65287, 5>>, <<65287, 4>>, <<65287, 6>>, <<65287, 7>>,
     <<65287, 1>>, <<65287, 0>>, <<65287, 2>>}

\* the divider values the writes meet: the ticks since power on
Dividers == {0, 24, 120, 510}

\* TIMA as the tick finds it, after the reload of a pending overflow
Reloaded(m) == IF m.timer_overflowed_last_tick THEN m.timer_modulo ELSE m.timer_counter

\* the AND of enable and the observed divider bit
HighAndEnabled(m) ==
    m.timer_enabled /\ Masked(m.divider, TimerControl_mask(m.timer_control))

InitTac ==
    /\ rom = Cartridge("RomOnly", 2, 256, <<>>, 0)
    /\ \E divider \in Dividers :
            gb = [Settled(GameBoy_new) EXCEPT !.divider = divider]
    /\ next_operation = Opcode(GameBoy_new.rd)
    /\ events = <<>>
    /\ outcome = <<"None">>
    /\ hist = NoHistory

TacTick ==
    /\ hist.steps < MaxTacTicks
    /\ gb' = Timer_tick(gb)
    /\ hist' = [hist EXCEPT !.steps = @ + 1, !.pre = gb, !.last = "tick",
                            !.w = <<>>, !.prev_w = hist.w,
                            !.high = HighAndEnabled(gb'), !.prev_high = hist.high,
                            !.enabled = gb'.timer_enabled,
                            !.prev_enabled = hist.enabled,
                            !.inc = gb'.timer_counter # Reloaded(gb),
                            !.prev_inc = hist.inc]
    /\ UNCHANGED <<rom, next_operation, events, outcome>>

TacWrite ==
    \E w \in TacWrites :
        /\ gb' = Timer_write(gb, w[1], w[2])
        /\ hist' = [hist EXCEPT !.pre = gb, !.last = "write",
                                !.w = w, !.prev_w = hist.w]
        /\ UNCHANGED <<rom, next_operation, events, outcome>>

NextTac == TacTick \/ TacWrite

SpecTac == InitTac /\ [][NextTac]_vars

----------------------------------------------------------------------------
(* The timer left to run with no register written, under SpecPeriod.       *)

MaxPeriodTicks == 1040

\* the timer enabled with clock select c, as a tick leaves it
Running(c, divider, tima, tma) ==
    [Settled(GameBoy_new) EXCEPT
        !.timer_enabled = TRUE, !.timer_control = c, !.divider = divider,
        !.timer_counter = tima, !.timer_modulo = tma,
        !.timer_was_high_last_tick = Masked(divider, TimerControl_mask(c))]

InitPeriod ==
    /\ rom = Cartridge("RomOnly", 2, 256, <<>>, 0)
    /\ \E c \in {"Div1024", "Div16", "Div64", "Div256"}, divider \in {0, 1019, 65530},
          tima \in {0, 250}, tma \in {0, 255} :
            /\ gb = Running(c, divider, tima, tma)
            /\ hist = [NoHistory EXCEPT !.start = divider]
    /\ next_operation = Opcode(GameBoy_new.rd)
    /\ events = <<>>
    /\ outcome = <<"None">>

PeriodTick ==
    /\ hist.steps < MaxPeriodTicks
    /\ gb' = Timer_tick(gb)
    /\ hist' = [hist EXCEPT !.steps = @ + 1, !.pre = gb, !.last = "tick",
                            !.incs = IF gb'.timer_counter # Reloaded(gb) THEN @ + 1 ELSE @]
    /\ UNCHANGED <<rom, next_operation, events, outcome>>

NextPeriod == PeriodTick

SpecPeriod == InitPeriod /\ [][NextPeriod]_vars

----------------------------------------------------------------------------
(* The CPU halted until the timer wakes it, under SpecHalt.                *)

MaxHaltSteps == 4200

\* TIMA, TAC and IE are set and the CPU halts, with IME set or clear
HaltRoms ==
    {Cartridge("RomOnly", 2, 256,
               LD_A(tima) \o LDH_A(5) \o LD_A(tac) \o LDH_A(7)
               \o LD_A(ie) \o LDH_A(255) \o x \o HALT, 0) :
        tima \in {0, 255}, tac \in {5, 6}, ie \in {4}, x \in {NOP, EI}}
    \cup {Cartridge("RomOnly", 2, 256,
                    LD_A(255) \o LDH_A(5) \o LD_A(tac) \o LDH_A(7)
                    \o LD_A(4) \o LDH_A(255) \o x \o HALT, 0) :
            tac \in {4, 7}, x \in {NOP, EI}}
    \cup {Cartridge("RomOnly", 2, 256,
                    LD_A(255) \o LDH_A(5) \o LD_A(tac) \o LDH_A(7)
                    \o LD_A(ie) \o LDH_A(255) \o NOP \o HALT, 0) :
            tac \in {5, 1}, ie \in {0, 4, 27}}

InitHalt == InitWith(HaltRoms)

\* the program is stepped up to its HALT and then for as long as it is halted
HaltEnabled ==
    /\ gb.panicked = ""
    /\ gb.state = "Halted" \/ hist.halt_at = -1
    /\ hist.steps < MaxHaltSteps

HaltStep ==
    /\ HaltEnabled
    /\ execute_operation

NextHalt == HaltStep

\* the front end steps the machine again and again: weak fairness of
\* NextHalt, WF_vars(NextHalt), written out.  execute_operation has a next
\* state in every state and counts the step, so ENABLED <<NextHalt>>_vars is
\* HaltEnabled.
HaltFairness == []<>(~HaltEnabled) \/ []<><<NextHalt>>_vars

SpecHalt == InitHalt /\ [][NextHalt]_vars /\ HaltFairness

----------------------------------------------------------------------------
(* The divider counting with the timer disabled, under SpecDiv.            *)

MaxDivTicks == 66000

\* the timer as a DIV write leaves it, disabled, with any clock select
InitDiv ==
    /\ rom = Cartridge("RomOnly", 2, 256, <<>>, 0)
    /\ \E c \in {"Div1024", "Div16", "Div64", "Div256"}, tima \in {0, 255} :
            gb = [Settled(GameBoy_new) EXCEPT !.timer_control = c,
                                              !.timer_counter = tima]
    /\ next_operation = Opcode(GameBoy_new.rd)
    /\ events = <<>>
    /\ outcome = <<"None">>
    /\ hist = NoHistory

DivTick ==
    /\ hist.steps < MaxDivTicks
    /\ gb' = Timer_tick(gb)
    /\ hist' = [hist EXCEPT !.steps = @ + 1, !.pre = gb, !.last = "tick"]
    /\ UNCHANGED <<rom, next_operation, events, outcome>>

NextDiv == DivTick

SpecDiv == InitDiv /\ [][NextDiv]_vars

----------------------------------------------------------------------------
(* DAA after every value of A and of the flags, under SpecDaa.             *)

LD_B(n) == <<6, n>>

ADD_A_B == <<128>>

DAA == <<39>>

\* A and F are popped from a word pushed on the stack, then adjusted; and
\* the sum 0x15 + 0x27 is adjusted
DaaRoms ==
    {Cartridge("RomOnly", 2, 256,
               LD_SP(53248) \o LD_BC(a * 256 + f * 16) \o PUSH(0) \o POP(3) \o DAA, 0) :
        a \in 0..255, f \in 0..15}
    \cup {Cartridge("RomOnly", 2, 256, LD_A(21) \o LD_B(39) \o ADD_A_B \o DAA, 0)}

InitDaa == InitWith(DaaRoms)

SpecDaa == InitDaa /\ [][Next]_vars

----------------------------------------------------------------------------
(* The bus read and written directly, under SpecBus.                       *)

MaxBusOps == 3

\* ROM in bank 0 and in the switched window, the bank select register,
\* cartridge RAM, work RAM and its echo, the unusable area, IF, a sound
\* port and IE
BusAddresses ==
    {0, 8192, 16384, 32767, 40960, 49152, 56831, 57344, 65023,
     65184, 65295, 65296, 65535}

BusValues == {1, 3, 227}

\* a ROM-only cartridge, and MBC1 cartridges of two and of four banks
\* whose last bank differs from the others in its first bytes
BusRoms ==
    {Cartridge("RomOnly", 2, 256, <<0, 195>>, 0)}
    \cup {Cartridge("Mbc1", banks, (banks - 1) * 16384, <<171, 205>>, 85) :
            banks \in {2, 4}}

InitBus ==
    /\ rom \in BusRoms
    /\ gb = Settled(GameBoy_new)
    /\ next_operation = Opcode(GameBoy_new.rd)
    /\ events = <<>>
    /\ outcome = <<"None">>
    /\ hist = NoHistory

\* MemoryContext::read; the index panic of the cartridge unwinds out of it
BusRead ==
    /\ gb.panicked = ""
    /\ hist.steps < MaxBusOps
    /\ \E addr \in BusAddresses :
        \E m \in {MemoryContext_read(gb, addr)} :
            /\ gb' = IF m.panicked # "" THEN [gb EXCEPT !.panicked = m.panicked]
                     ELSE Settled(m)
            /\ events' = IF m.panicked # "" THEN <<>> ELSE take_events(m)
            /\ outcome' = IF m.panicked # "" THEN <<"Panic", m.panicked>> ELSE <<"Ok">>
            /\ hist' = [hist EXCEPT !.steps = @ + 1, !.pre = gb, !.last = "read",
                                    !.w = <<addr, m.rd>>, !.prev_w = hist.w]
            /\ UNCHANGED <<rom, next_operation>>

\* MemoryContext::write
BusWrite ==
    /\ gb.panicked = ""
    /\ hist.steps < MaxBusOps
    /\ \E addr \in BusAddresses, value \in BusValues :
        \E m \in {MemoryContext_write(gb, addr, value)} :
            /\ gb' = Settled(m)
            /\ events' = take_events(m)
            /\ outcome' = <<"Ok">>
            /\ hist' = [hist EXCEPT !.steps = @ + 1, !.pre = gb, !.last = "write",
                                    !.w = <<addr, value>>, !.prev_w = hist.w,
                                    !.bank = IF addr >= 8192 /\ addr <= 16383
                                             THEN value ELSE @]
            /\ UNCHANGED <<rom, next_operation>>

\* InterruptContext::raise_interrupt, as a peripheral calls it
BusRaise ==
    /\ gb.panicked = ""
    /\ hist.steps < MaxBusOps
    /\ \E i \in {"Timer", "Joypad"} :
        \E m \in {GameboyContext_raise_interrupt(gb, i)} :
            /\ gb' = Settled(m)
            /\ events' = take_events(m)
            /\ outcome' = <<"Ok">>
            /\ hist' = [hist EXCEPT !.steps = @ + 1, !.pre = gb, !.last = "raise",
                                    !.w = <<>>, !.prev_w = hist.w]
            /\ UNCHANGED <<rom, next_operation>>

NextBus == BusRead \/ BusWrite \/ BusRaise

SpecBus == InitBus /\ [][NextBus]_vars

----------------------------------------------------------------------------
(* Claims.                                                                 *)

SIR == StartInterruptRoutine

Pending(iflag, ie) == And8(iflag % 32, ie % 32) # 0

LastEvent == events[Len(events)]

\* the lowest-numbered bit set in v, as a mask (0 when none is set)
LowestBit(v) ==
    IF v % 2 = 1 THEN 1
    ELSE IF (v \div 2) % 2 = 1 THEN 2
    ELSE IF (v \div 4) % 2 = 1 THEN 4
    ELSE IF (v \div 8) % 2 = 1 THEN 8
    ELSE IF (v \div 16) % 2 = 1 THEN 16
    ELSE 0

VectorOf(low) ==
    CASE low = 1 -> 64 [] low = 2 -> 72 [] low = 4 -> 80 [] low = 8 -> 88
      [] low = 16 -> 96 [] OTHER -> -1

BitOfInterrupt(i) ==
    CASE i = "VBlank" -> 1 [] i = "LcdStat" -> 2 [] i = "Timer" -> 4
      [] i = "Serial" -> 8 [] i = "Joypad" -> 16

\* C1: when EI executes with IME false, the step that executes EI does not
\* return StartInterruptRoutine; the step after it executes the instruction
\* that follows EI; and when that instruction is not DI and an enabled
\* interrupt is pending at its end, that step returns StartInterruptRoutine,
\* which the step after it runs as the interrupt routine with no instruction
\* executed.
C1_EiDelay ==
    /\ (hist.instr = "EI" /\ ~hist.pre.interrupt_master_enable)
            => next_operation[1] = "Opcode"
    /\ (hist.prev_instr = "EI" /\ ~hist.prev_ime) => hist.op[1] = "Opcode"
    /\ (hist.prev_instr = "EI" /\ ~hist.prev_ime
        /\ hist.instr \notin {"", "DI"}
        /\ Pending(hist.poll.iflag, hist.poll.ie))
            => next_operation = SIR
    /\ (hist.op = SIR /\ hist.pre.state = "Running" /\ outcome = <<"Ok">>)
            => hist.instr = "" /\ hist.sel # <<>>

C1_Witness ==
    /\ hist.prev_instr = "EI" /\ ~hist.prev_ime
    /\ hist.instr = "Nop"
    /\ Pending(hist.pre.interrupt_flag, hist.pre.interrupt_enable)
    /\ next_operation = SIR

\* C2: after every successfully executed opcode, the step returns
\* StartInterruptRoutine exactly when IME is true and IF AND IE != 0 at the end
\* of the instruction, and then nothing is fetched (no tick, no bus read, PC
\* as the instruction left it); otherwise it returns Opcode(b) with b the byte
\* read at PC, PC is one more, and the fetch took four ticks.
C2_PollAfterOpcode ==
    hist.instr # "" =>
        LET p == hist.poll
        IN  IF p.ime /\ Pending(p.iflag, p.ie)
            THEN /\ next_operation = SIR
                 /\ gb.pc = p.pc
                 /\ gb.clock_counter = p.clock
                 /\ LastEvent.type = "InstructionExecuted"
            ELSE /\ LastEvent.type = "MemoryRead"
                 /\ LastEvent.address = p.pc
                 /\ next_operation = Opcode(LastEvent.value)
                 /\ gb.pc = Wrap16(p.pc + 1)
                 /\ gb.clock_counter = p.clock + 4

C2_Witness ==
    /\ hist.instr = "ReturnFromInterrupt"
    /\ hist.poll.ime /\ Pending(hist.poll.iflag, hist.poll.ie)
    /\ next_operation = SIR
    /\ gb.pc = hist.poll.pc

InRam(a) == a \in 49152..57343 \/ a \in 65408..65534

StackInRam(sp) == InRam(Wrap16(sp + 65535)) /\ InRam(Wrap16(sp + 65534))

RoutineRan == hist.op = SIR /\ hist.pre # <<>> /\ hist.pre.state = "Running"

\* C3 (amended): with both stack bytes in RAM, executing StartInterruptRoutine
\* with the CPU running completes, costs exactly 20 clock ticks, and ends with
\* the old PC stored at SP-2 (low byte) and SP-1 (high byte), SP decreased by
\* 2, IME false, the next operation Opcode(byte at the vector) and PC =
\* vector + 1, where the vector is that of the lowest-numbered bit of IF AND IE
\* when the routine selects it (after the push); the routine clears that IF
\* bit and no other, and only a bit raised again during the closing fetch is
\* set afterwards.
C3_RoutineInRam ==
    (RoutineRan /\ StackInRam(hist.pre.sp)) =>
        /\ outcome = <<"Ok">>
        /\ gb.clock_counter = hist.pre.clock_counter + 20
        /\ gb.sp = Wrap16(hist.pre.sp + 65534)
        /\ BusLookup(gb, gb.sp) = hist.pre.pc % 256
        /\ BusLookup(gb, Wrap16(gb.sp + 1)) = hist.pre.pc \div 256
        /\ ~gb.interrupt_master_enable
        /\ LET low == LowestBit(And8(hist.sel.iflag, hist.sel.ie))
           IN  /\ low # 0
               /\ And8(hist.sel.iflag, hist.pre.interrupt_flag) = hist.pre.interrupt_flag
               /\ hist.sel.after = hist.sel.iflag - low
               /\ And8(gb.interrupt_flag, hist.sel.after) = hist.sel.after
               /\ next_operation = Opcode(BusLookup(gb, VectorOf(low)))
               /\ gb.pc = VectorOf(low) + 1

C3_Witness ==
    /\ RoutineRan /\ StackInRam(hist.pre.sp) /\ outcome = <<"Ok">>
    /\ hist.pre.interrupt_flag = 31
    /\ gb.interrupt_flag = 30
    /\ gb.pc = 65

\* C3 as claimed: for every stack, the routine ends after 20 ticks with the
\* old PC stored on the stack, the IF bit of the highest-priority enabled
\* pending interrupt cleared and no other changed, IME false, and the next
\* operation the opcode at that interrupt's vector.
C3_AsClaimed ==
    RoutineRan =>
        LET low == LowestBit(And8(hist.pre.interrupt_flag, hist.pre.interrupt_enable))
        IN  /\ outcome = <<"Ok">>
            /\ gb.clock_counter = hist.pre.clock_counter + 20
            /\ gb.sp = Wrap16(hist.pre.sp + 65534)
            /\ BusLookup(gb, gb.sp) = hist.pre.pc % 256
            /\ BusLookup(gb, Wrap16(gb.sp + 1)) = hist.pre.pc \div 256
            /\ gb.interrupt_flag = hist.pre.interrupt_flag - low
            /\ ~gb.interrupt_master_enable
            /\ next_operation = Opcode(BusLookup(gb, VectorOf(low)))
            /\ gb.pc = VectorOf(low) + 1

HaltedEvents == {i \in 1..Len(events) : events[i].type = "Halted"}

\* C4: a step taken with the CPU Halted emits exactly one Halted event and
\* advances the clock by four ticks; if IF AND IE = 0 after it the CPU is still
\* Halted and the pending operation is unchanged; otherwise the CPU is Running
\* and the pending operation is StartInterruptRoutine if IME is true and the
\* preserved operation if not.
C4_HaltedStep ==
    (hist.pre # <<>> /\ hist.pre.state = "Halted" /\ hist.last = "") =>
        /\ outcome = <<"Ok">>
        /\ Cardinality(HaltedEvents) = 1
        /\ gb.clock_counter = hist.pre.clock_counter + 4
        /\ IF ~Pending(gb.interrupt_flag, gb.interrupt_enable)
           THEN gb.state = "Halted" /\ next_operation = hist.op
           ELSE /\ gb.state = "Running"
                /\ next_operation = IF gb.interrupt_master_enable THEN SIR ELSE hist.op

C4_Witness ==
    /\ hist.pre # <<>> /\ hist.pre.state = "Halted"
    /\ ~Pending(hist.pre.interrupt_flag, hist.pre.interrupt_enable)
    /\ gb.state = "Running"
    /\ ~gb.interrupt_master_enable
    /\ next_operation = hist.op
    /\ next_operation[1] = "Opcode"

Lower(i, j) == BitOfInterrupt(i) <= BitOfInterrupt(j)

\* C10: whenever an interrupt routine has run, the interrupt it vectored to is
\* the lowest-numbered bit set in IF AND IE when it selected it, and PC is
\* that interrupt's vector plus one (0x40, 0x48, 0x50, 0x58, 0x60); so of two
\* routines in a row, when the second's interrupt was already enabled and
\* pending at the first, the first's interrupt is the lower-numbered one.
C10_Priority ==
    /\ (RoutineRan /\ outcome = <<"Ok">>) =>
            LET v == hist.vectors[Len(hist.vectors)]
            IN  /\ BitOfInterrupt(v.interrupt) = LowestBit(And8(hist.sel.iflag, hist.sel.ie))
                /\ v.pending = And8(hist.sel.iflag, hist.sel.ie)
                /\ gb.pc = VectorOf(BitOfInterrupt(v.interrupt)) + 1
    /\ \A k \in 1..(Len(hist.vectors) - 1) :
            And8(hist.vectors[k].pending, BitOfInterrupt(hist.vectors[k + 1].interrupt)) # 0
                => Lower(hist.vectors[k].interrupt, hist.vectors[k + 1].interrupt)

C10_Witness ==
    /\ Len(hist.vectors) = 5
    /\ [k \in 1..5 |-> hist.vectors[k].interrupt]
            = <<"VBlank", "LcdStat", "Timer", "Serial", "Joypad">>
    /\ hist.vectors[1].pending = 31

\* C11: after DI executes, IME is false and the IME-scheduled latch is clear;
\* and from a DI on, also one that directly follows EI with an enabled
\* interrupt pending, no step returns or runs StartInterruptRoutine until
\* another EI or RETI executes.
C11_DiCancelsEi ==
    hist.since_di >= 0 =>
        /\ ~gb.interrupt_master_enable
        /\ ~gb.ime_scheduled
        /\ next_operation # SIR
        /\ hist.op # SIR

C11_Witness ==
    /\ hist.since_di = 2 /\ hist.ei_di
    /\ hist.instr = "Nop"
    /\ Pending(hist.pre.interrupt_flag, hist.pre.interrupt_enable)
    /\ Pending(gb.interrupt_flag, gb.interrupt_enable)
    /\ next_operation[1] = "Opcode"

\* C12: when RETI completes IME is true; if an enabled interrupt is pending
\* then, the step that executes RETI returns StartInterruptRoutine with the
\* opcode at the return address not fetched, and the next step runs the
\* interrupt routine with no instruction executed.
C12_RetiImmediate ==
    /\ hist.instr = "ReturnFromInterrupt" =>
            /\ hist.poll.ime
            /\ Pending(hist.poll.iflag, hist.poll.ie) =>
                    /\ next_operation = SIR
                    /\ gb.pc = hist.poll.pc
                    /\ gb.clock_counter = hist.poll.clock
    /\ (hist.prev_instr = "ReturnFromInterrupt"
        /\ Pending(hist.prev_poll.iflag, hist.prev_poll.ie)) =>
            /\ hist.op = SIR
            /\ hist.instr = ""

C12_Witness ==
    /\ hist.prev_instr = "ReturnFromInterrupt"
    /\ Pending(hist.prev_poll.iflag, hist.prev_poll.ie)
    /\ ~hist.prev_ime
    /\ RoutineRan /\ outcome = <<"Ok">>
    /\ gb.pc = 65

\* the machine n clock ticks later, with no bus access in between
RECURSIVE Ticks(_, _)
Ticks(m, n) == IF n = 0 THEN m ELSE Ticks(tick(m), n - 1)

\* the byte a bus read of addr returns in m (0xFF where nothing is mapped)
Seen(m, addr) == IF BusLookup(m, addr) = -1 THEN 255 ELSE BusLookup(m, addr)

Reads == SelectSeq(events, LAMBDA e : e.type = "MemoryRead")

Writes == SelectSeq(events, LAMBDA e : e.type = "MemoryWritten")

\* the ticks of the closing fetch, which an interrupt replaces
FetchTicks == IF next_operation = SIR THEN 0 ELSE 4

\* the place of the step's first read among the reads emitted
FirstRead(accesses) == Len(Reads) - accesses - (FetchTicks \div 4) + 1

\* C17: a byte read or written by an instruction takes four clock ticks with
\* the bus access after the third: LDH A,(n) costs 4 ticks for each of its
\* three accesses, reads its operand in the machine as it is 3 ticks into
\* the step and the port, DIV and TIMA among them, as it is 7 ticks into the
\* step; LDH (n),A writes after 7 ticks, so a write to DIV leaves the divider
\* at 1 plus the ticks of the closing fetch.
C17_AccessTiming ==
    /\ hist.instr = "LoadIOAIndirectImmediate8" =>
            LET operand == Reads[FirstRead(2)]
                port == Reads[FirstRead(2) + 1]
            IN  /\ gb.clock_counter = hist.pre.clock_counter + 8 + FetchTicks
                /\ operand.address = hist.pre.pc
                /\ operand.value = Seen(Ticks(hist.pre, 3), hist.pre.pc)
                /\ port.address = 65280 + operand.value
                /\ port.value = Seen(Ticks(hist.pre, 7), port.address)
                /\ gb.a = port.value
    /\ hist.instr = "LoadIOIndirectImmediate8A" =>
            LET operand == Reads[FirstRead(1)]
            IN  /\ gb.clock_counter = hist.pre.clock_counter + 8 + FetchTicks
                /\ operand.value = Seen(Ticks(hist.pre, 3), hist.pre.pc)
                /\ Writes = <<[type |-> "MemoryWritten",
                               address |-> 65280 + operand.value,
                               value |-> hist.pre.a]>>
                /\ operand.value = 4 => gb.divider = 1 + FetchTicks

\* TIMA is read as 0 by the access whose fourth tick increments it
C17_Witness ==
    /\ hist.instr = "LoadIOAIndirectImmediate8"
    /\ Reads[Len(Reads) - 1].address = 65285
    /\ gb.a = 0
    /\ Timer_read(Ticks(hist.pre, 7), 65285) = 0
    /\ Timer_read(Ticks(hist.pre, 8), 65285) = 1

\* the step wrote the word w at addr and nothing else: the low byte first,
\* the high byte after it at addr + 1
WordWritten(addr, w) ==
    Writes = <<[type |-> "MemoryWritten", address |-> addr, value |-> w % 256],
               [type |-> "MemoryWritten", address |-> Wrap16(addr + 1),
                value |-> w \div 256]>>

\* the step pushed the word w: at SP-2 and SP-1, with SP decreased by 2
Pushed(w) ==
    /\ WordWritten(Wrap16(hist.pre.sp + 65534), w)
    /\ gb.sp = Wrap16(hist.pre.sp + 65534)

\* the register pair of a PUSH opcode
PushedPair(opcode, m) ==
    CASE opcode = 197 -> m.b * 256 + m.c
      [] opcode = 213 -> m.d * 256 + m.e
      [] opcode = 229 -> m.h * 256 + m.l
      [] opcode = 245 -> m.a * 256 + m.f

\* C18: PUSH, CALL, RST and the interrupt routine write their word to SP-2
\* (low byte, first) and SP-1 (high byte, second) and leave SP decreased by 2;
\* LD (nn),SP writes SP to nn (low byte, first) and nn+1; and the clock ticks
\* between the two writes: when the first one resets the divider, the divider
\* ends at 5 plus the ticks of the closing fetch.
C18_WordWrites ==
    /\ hist.instr = "Push" => Pushed(PushedPair(hist.op[2], hist.pre))
    /\ hist.instr = "CallImmediate" => Pushed(Wrap16(hist.pre.pc + 2))
    /\ (hist.instr = "CallConditionalImmediate" /\ Writes # <<>>) =>
            Pushed(Wrap16(hist.pre.pc + 2))
    /\ hist.instr = "Reset" => Pushed(hist.pre.pc)
    /\ (RoutineRan /\ outcome = <<"Ok">>) => Pushed(hist.pre.pc)
    /\ hist.instr = "LoadIndirectImmediate16SP" =>
            /\ WordWritten(Reads[FirstRead(2)].value + 256 * Reads[FirstRead(2) + 1].value,
                           hist.pre.sp)
            /\ gb.sp = hist.pre.sp
    /\ (Len(Writes) = 2 /\ Writes[1].address = 65284
        /\ (hist.instr \in {"Push", "CallImmediate", "Reset", "LoadIndirectImmediate16SP"}
            \/ RoutineRan)) =>
            gb.divider = 5 + FetchTicks

C18_Witness ==
    /\ hist.instr = "LoadIndirectImmediate16SP"
    /\ hist.pre.sp = 53248
    /\ Writes[1].address = 65284 /\ Writes[1].value = 0
    /\ Writes[2].address = 65285 /\ Writes[2].value = 208
    /\ gb.timer_counter = 208
    /\ gb.divider = 9

----------------------------------------------------------------------------
(* Claims about the timer, under SpecTimer.                                *)

TimerBit(m) == Masked(m.interrupt_flag, 4)

\* C5: when the TIMA increment of a tick wraps from 0xFF to 0x00, TIMA reads
\* 0x00 after that tick and the tick has not raised the Timer interrupt; the
\* next tick loads TIMA with TMA and raises the Timer interrupt flag; and no
\* tick raises it unless the tick before it wrapped.
C5_OverflowDelay ==
    hist.last = "tick" =>
        /\ hist.wrapped =>
                /\ Timer_read(gb, 65285) = 0
                /\ gb.interrupt_flag = hist.pre.interrupt_flag
        /\ hist.wrapped_before =>
                /\ Timer_read(gb, 65285) = Timer_read(gb, 65286)
                /\ TimerBit(gb)
        /\ ~hist.wrapped_before => gb.interrupt_flag = hist.pre.interrupt_flag

C5_Witness ==
    /\ hist.last = "tick" /\ hist.wrapped_before
    /\ ~TimerBit(hist.pre) /\ TimerBit(gb)
    /\ hist.pre.timer_counter = 0 /\ gb.timer_counter = 171

\* C6 (amended): from TIMA=0xFF, TMA=0xAB, TAC=0x05 and divider 0, after 16
\* Timer ticks TIMA equals 0x00 and IF bit 2 is clear; after the 17th tick
\* TIMA equals 0xAB and IF bit 2 is set; and one further tick changes neither
\* TIMA nor IF.
C6_ReloadScenario ==
    /\ hist.since = 16 => gb.timer_counter = 0 /\ ~TimerBit(gb)
    /\ hist.since = 17 => gb.timer_counter = 171 /\ TimerBit(gb)
    /\ hist.since = 18 =>
            /\ gb.timer_counter = hist.pre.timer_counter
            /\ gb.interrupt_flag = hist.pre.interrupt_flag
            /\ gb.timer_counter = 171 /\ TimerBit(gb)

C6_Witness == hist.since = 18 /\ gb.timer_counter = 171 /\ TimerBit(gb)

\* C6 as claimed: after 16 Timer ticks TIMA equals 0xAB and IF bit 2 is set,
\* and one further tick changes neither TIMA nor IF.
C6_AsClaimed ==
    /\ hist.since = 16 => gb.timer_counter = 171 /\ TimerBit(gb)
    /\ hist.since = 17 =>
            /\ gb.timer_counter = hist.pre.timer_counter
            /\ gb.interrupt_flag = hist.pre.interrupt_flag

----------------------------------------------------------------------------
(* Claims about decoding, under SpecDecode.                                *)

\* C7 as claimed: a step returns success or an ExecutionError; it never
\* panics.
C7_NeverPanics == outcome[1] # "Panic"

ElevenInvalid == {211, 219, 221, 227, 228, 235, 236, 237, 244, 252, 253}

DecodedOpcode == hist.pre # <<>> /\ hist.pre.state = "Running" /\ hist.op[1] = "Opcode"

\* the machine apart from the event buffer, which the step hands out
Machine(m) == [m EXCEPT !.events = <<>>]

\* C8: a step that decodes opcode b returns InvalidOpcode(b) exactly when b is
\* one of 0xD3, 0xDB, 0xDD, 0xE3, 0xE4, 0xEB, 0xEC, 0xED, 0xF4, 0xFC, 0xFD, and
\* then no register, flag, memory cell, interrupt state or clock tick has
\* changed and no event was emitted.
C8_InvalidOpcodes ==
    DecodedOpcode =>
        /\ (outcome[1] = "Err") = (hist.op[2] \in ElevenInvalid)
        /\ outcome[1] = "Err" =>
                /\ outcome[2] = <<"InvalidOpcode", hist.op[2]>>
                /\ Machine(gb) = Machine(hist.pre)
                /\ events = hist.pre.events
                /\ next_operation = hist.op

C8_Witness ==
    /\ DecodedOpcode /\ hist.op[2] = 237
    /\ outcome = <<"Err", <<"InvalidOpcode", 237>>>>
    /\ hist.pre.interrupt_flag = 31 /\ gb.interrupt_flag = 31
    /\ gb.clock_counter = hist.pre.clock_counter

\* C9: once a step has returned InvalidOpcode, the pending operation is
\* unchanged and every later step returns the same error and changes no CPU,
\* memory, interrupt or clock state.
C9_NotRecovered ==
    hist.errors # <<>> =>
        /\ outcome = <<"Err", hist.errors[1]>>
        /\ \A k \in 1..Len(hist.errors) : hist.errors[k] = hist.errors[1]
        /\ next_operation = hist.op
        /\ Machine(gb) = Machine(hist.pre)

C9_Witness ==
    /\ Len(hist.errors) >= 3
    /\ outcome = <<"Err", <<"InvalidOpcode", 211>>>>
    /\ hist.errors[1] = hist.errors[3]

----------------------------------------------------------------------------
(* Claims about the running timer, under SpecPeriod.                       *)

Period(c) ==
    CASE c = "Div1024" -> 1024 [] c = "Div16" -> 16 [] c = "Div64" -> 64
      [] c = "Div256" -> 256

ObservedBit(c) ==
    CASE c = "Div1024" -> 9 [] c = "Div16" -> 3 [] c = "Div64" -> 5 [] c = "Div256" -> 7

\* the observed divider bit is 1 before the tick and 0 after it
Falls(before, after, c) ==
    Bit(before.divider, ObservedBit(c)) = 1 /\ Bit(after.divider, ObservedBit(c)) = 0

\* C13: with the timer enabled, clock select fixed and no register written,
\* a tick increments TIMA exactly when the observed divider bit (9, 3, 5, 7)
\* falls from 1 to 0 on it, and after n ticks TIMA has been incremented once
\* for every multiple of the period (1024, 16, 64, 256) the divider passed.
C13_Period ==
    hist.last = "tick" =>
        /\ gb.timer_counter =
                IF Falls(hist.pre, gb, gb.timer_control)
                THEN Wrap8(Reloaded(hist.pre) + 1)
                ELSE Reloaded(hist.pre)
        /\ hist.incs = ((hist.start + hist.steps) \div Period(gb.timer_control))
                        - (hist.start \div Period(gb.timer_control))

C13_Witness ==
    /\ hist.last = "tick" /\ gb.timer_control = "Div1024"
    /\ hist.start = 1019 /\ hist.steps = 1029 /\ hist.incs = 2
    /\ Falls(hist.pre, gb, "Div1024")
    /\ gb.timer_counter = 252

----------------------------------------------------------------------------
(* Claims about writes to DIV and TAC, under SpecTac.                      *)

\* the tick just taken is the first after a write to address
FirstTickAfter(address) ==
    hist.last = "tick" /\ hist.prev_w # <<>> /\ hist.prev_w[1] = address

Incremented == gb.timer_counter = Wrap8(Reloaded(hist.pre) + 1)

\* C14: a write of any value to 0xFF04 sets the whole 16-bit divider to 0,
\* and if the AND of enable and the observed divider bit was high on the tick
\* before the write, the first tick after the write increments TIMA.
C14_DivWrite ==
    /\ (hist.last = "write" /\ hist.w[1] = 65284) => gb.divider = 0
    /\ (FirstTickAfter(65284) /\ hist.prev_high) => Incremented

C14_Witness ==
    /\ FirstTickAfter(65284) /\ hist.prev_high
    /\ hist.prev_w[2] = 77
    /\ hist.pre.divider = 0 /\ gb.divider = 1
    /\ hist.pre.timer_counter = 0 /\ gb.timer_counter = 1

\* C15: a write to TAC changes neither TIMA nor the divider; on the next tick,
\* if the AND of enable and the observed bit was high on the last tick and is
\* low under the new TAC value (also when the write disables the timer),
\* TIMA is incremented once.
C15_TacWrite ==
    /\ (hist.last = "write" /\ hist.w[1] = 65287) =>
            /\ gb.timer_counter = hist.pre.timer_counter
            /\ gb.divider = hist.pre.divider
            /\ Timer_read(gb, 65287) = hist.w[2]
    /\ (FirstTickAfter(65287) /\ hist.prev_high /\ ~hist.high) => Incremented

C15_Witness ==
    /\ FirstTickAfter(65287) /\ hist.prev_high /\ ~hist.high
    /\ hist.prev_w[2] = 6 /\ gb.timer_enabled
    /\ Masked(gb.divider, 8) /\ ~Masked(gb.divider, 32)
    /\ hist.pre.timer_counter = 0 /\ gb.timer_counter = 1

\* C16: a tick taken with the enable bit clear, clear on the previous tick
\* too, and no overflow reload pending neither changes TIMA nor raises the
\* Timer interrupt, whatever the divider and whatever clock select was
\* written with the enable bit clear.
C16_Disabled ==
    (hist.last = "tick" /\ ~hist.pre.timer_enabled /\ ~hist.prev_enabled
     /\ ~hist.pre.timer_overflowed_last_tick) =>
        /\ gb.timer_counter = hist.pre.timer_counter
        /\ gb.interrupt_flag = hist.pre.interrupt_flag

C16_Witness ==
    /\ FirstTickAfter(65287) /\ hist.prev_w[2] = 2
    /\ ~hist.prev_enabled /\ ~hist.pre.timer_overflowed_last_tick
    /\ hist.pre.divider = 511 /\ gb.divider = 512
    /\ hist.pre.timer_counter = 255 /\ gb.timer_counter = 255
    /\ gb.interrupt_flag = 0

----------------------------------------------------------------------------
(* Claims about the clock, under SpecDecode.                               *)

Elapsed == get_elapsed_cycles(gb) - get_elapsed_cycles(hist.pre)

\* the bus accesses of the step; the read of the first opcode, made when the
\* machine was built, is handed out with the events of the first step
StepAccesses == Len(Reads) + Len(Writes) - (IF hist.steps = 1 THEN 1 ELSE 0)

\* C19 (amended): elapsed_cycles never decreases and counts clock ticks, four
\* to the m-cycle: a step that fails adds nothing, and a step that succeeds
\* adds four ticks for each memory access, the fetch of the next opcode
\* included, and four for each internal cycle: 4 for NOP and for a halted
\* step, 20 for an interrupt routine.
C19_ElapsedTicks ==
    hist.pre # <<>> =>
        /\ Elapsed >= 0
        /\ Elapsed % 4 = 0
        /\ outcome # <<"Ok">> => Elapsed = 0
        /\ outcome = <<"Ok">> =>
                /\ Elapsed >= 4 * StepAccesses
                /\ hist.instr \in {"Nop", "DI", "EI"} => Elapsed = 4 * StepAccesses
                /\ (hist.instr = "Nop" /\ next_operation # SIR) => Elapsed = 4
                /\ hist.pre.state = "Halted" => Elapsed = 4
                /\ RoutineRan => Elapsed = 20 /\ StepAccesses = 3

C19_Witness ==
    /\ RoutineRan /\ outcome = <<"Ok">>
    /\ hist.prev_instr = "Nop"
    /\ get_elapsed_cycles(gb) = get_elapsed_cycles(hist.pre) + 20
    /\ get_elapsed_cycles(gb) = 56

\* C19 as claimed: elapsed_cycles counts m-cycles: a step adds 1 for NOP and
\* 5 for an interrupt routine.
C19_AsClaimed ==
    hist.pre # <<>> =>
        /\ Elapsed >= 0
        /\ (hist.instr = "Nop" /\ next_operation # SIR) => Elapsed = 1
        /\ (RoutineRan /\ outcome = <<"Ok">>) => Elapsed = 5

TimedInstructions ==
    {"Nop", "LoadIndirectImmediate16SP", "CallImmediate", "Reset", "Push", "Pop", "Return"}

\* the ticks of an instruction with the fetch of the following opcode
Cost(instruction) ==
    CASE instruction = "Nop" -> 4
      [] instruction = "LoadIndirectImmediate16SP" -> 20
      [] instruction = "CallImmediate" -> 24
      [] instruction = "Reset" -> 16
      [] instruction = "Push" -> 16
      [] instruction = "Pop" -> 12
      [] instruction = "Return" -> 16

\* C20: counted in clock ticks with the fetch of the following opcode, NOP
\* costs 4, LD (nn),SP 20, CALL nn 24, RST n 16, PUSH 16, POP 12 and RET 16,
\* whatever the operands, the registers and the stack hold; when an
\* interrupt routine follows instead, the four ticks of the fetch are not
\* spent.
C20_Costs ==
    hist.instr \in TimedInstructions =>
        /\ outcome = <<"Ok">>
        /\ Elapsed = Cost(hist.instr) - 4 + FetchTicks

C20_Witness ==
    /\ hist.instr = "Return" /\ hist.pre.sp = 65286
    /\ hist.prev_instr = "Pop"
    /\ next_operation[1] = "Opcode"
    /\ Elapsed = 16

----------------------------------------------------------------------------
(* Claims about the bus, under SpecBus.                                    *)

\* addresses that no component answers: cartridge RAM (neither cartridge
\* has any), the unusable area, the joypad port and a sound port
NoOwner == {40960, 65184, 65280, 65296}

LastRead(addresses) ==
    hist.last = "read" /\ outcome = <<"Ok">> /\ hist.w[1] \in addresses

LastWrite(addresses) == hist.last = "write" /\ hist.w[1] \in addresses

EventsOf(type, addr) ==
    {i \in 1..Len(events) : events[i].type = type /\ events[i].address = addr}

\* C21 as claimed: a bus write to an address that no peripheral owns changes
\* no peripheral state and emits a WriteToNonMappedAddress event for that
\* address, and no ReadFromNonMappedAddress event.
C21_AsClaimed ==
    LastWrite(NoOwner) =>
        /\ gb = hist.pre
        /\ EventsOf("WriteToNonMappedAddress", hist.w[1]) # {}
        /\ EventsOf("ReadFromNonMappedAddress", hist.w[1]) = {}

\* C22: a bus read of an address that no peripheral owns returns 0xFF,
\* emits a ReadFromNonMappedAddress event for that address (before the
\* MemoryRead event of the access), and changes no state.
C22_UnmappedRead ==
    LastRead(NoOwner) =>
        /\ hist.w[2] = 255
        /\ events = <<[type |-> "ReadFromNonMappedAddress", address |-> hist.w[1]],
                      [type |-> "MemoryRead", address |-> hist.w[1], value |-> 255]>>
        /\ gb = hist.pre

C22_Witness ==
    /\ LastRead({65184})
    /\ hist.prev_w = <<49152, 3>>
    /\ EventsOf("ReadFromNonMappedAddress", 65184) = {1}
    /\ gb.wram # <<>>

\* the byte a bus read of addr would return now
ReadOf(addr) == MemoryContext_read(gb, addr).rd

\* the first and the last address of echo RAM
Echoes == {57344, 65023}

\* C24 as claimed: for every address a in 0xE000..0xFDFF a read of a returns
\* the same byte as a read of a - 0x2000, and a byte written to either
\* address is read back from both.
C24_AsClaimed ==
    \A a \in Echoes :
        /\ ReadOf(a) = ReadOf(a - 8192)
        /\ LastWrite({a, a - 8192}) =>
                ReadOf(a) = hist.w[2] /\ ReadOf(a - 8192) = hist.w[2]

\* C25 as claimed: on an MBC1 cartridge the selected bank is the low five
\* bits of the last value written to 0x2000..0x3FFF, masked to the number of
\* banks; a read in 0x4000..0x7FFF returns the byte of that bank and never
\* indexes outside the ROM; a read in 0x0000..0x3FFF returns bank 0.
C25_AsClaimed ==
    rom.kind = "Mbc1" =>
        /\ outcome[1] # "Panic"
        /\ hist.bank # -1 => gb.rom_bank = (hist.bank % 32) % rom.banks
        /\ LastRead({16384, 32767}) =>
                /\ gb.rom_bank < rom.banks
                /\ hist.w[2] = RomByte(gb.rom_bank * 16384 + (hist.w[1] - 16384))
        /\ LastRead({0, 8192}) => hist.w[2] = RomByte(hist.w[1])

\* C30: after a write of any byte to IF (0xFF0F) or IE (0xFFFF) a read of
\* that register returns the written value with bits 7..5 cleared, and in
\* every reachable state IF and IE read with bits 7..5 clear.
C30_ReservedBits ==
    gb.panicked = "" =>
        /\ \A a \in {65295, 65535} : ReadOf(a) < 32
        /\ LastWrite({65295, 65535}) => ReadOf(hist.w[1]) = hist.w[2] % 32

C30_Witness ==
    /\ LastWrite({65535})
    /\ hist.w[2] = 227
    /\ ReadOf(65535) = 3
    /\ hist.prev_w = <<65295, 227>>
    /\ ReadOf(65295) = 3

----------------------------------------------------------------------------
(* Claims about whole steps, under Spec and SpecDecode.                    *)

\* the interrupts whose IF bit the last step set without the program
\* writing IF: the ones a peripheral raised
RaisedInStep ==
    IF \/ hist.pre = <<>>
       \/ outcome # <<"Ok">>
       \/ \E i \in 1..Len(Writes) : Writes[i].address = 65295
    THEN {}
    ELSE {k \in 1..5 : /\ Bit(hist.pre.interrupt_flag, k - 1) = 0
                       /\ Bit(gb.interrupt_flag, k - 1) = 1}

\* C23 as claimed: whenever a peripheral raises an interrupt during a step,
\* the events returned by that step contain an InterruptRaised event naming
\* that interrupt.
C23_AsClaimed ==
    \A k \in RaisedInStep :
        \E i \in 1..Len(events) :
            events[i].type = "InterruptRaised" /\ events[i].interrupt = Interrupts[k]

\* the register pair of a PUSH or POP opcode
PairOf(op) == from_byte_af((op[2] \div 16) % 4)

\* the last two steps were PUSH rr and POP rr of the same pair
PushThenPop ==
    /\ hist.prev_instr = "Push"
    /\ hist.instr = "Pop"
    /\ PairOf(hist.prev_op) = PairOf(hist.op)

\* C26: with both stack bytes in ordinary RAM, PUSH rr immediately followed
\* by POP rr leaves rr as it was before the PUSH (AF with the low nibble of
\* F zero) and SP at its value before the PUSH, for every register pair.
C26_PushPop ==
    (PushThenPop /\ StackInRam(hist.before.sp)) =>
        /\ gb.sp = hist.before.sp
        /\ read_register16(gb, PairOf(hist.op))
              = IF PairOf(hist.op) = "AF"
                THEN hist.before.a * 256 + FlagsTruncate(hist.before.f)
                ELSE read_register16(hist.before, PairOf(hist.op))

C26_Witness ==
    /\ PushThenPop
    /\ hist.op = Opcode(241)
    /\ hist.before.sp = 65410
    /\ gb.a = 0
    /\ gb.f = 144
    /\ Seen(gb, 65409) = 0
    /\ Seen(gb, 65408) = 144

InstructionsExecuted == SelectSeq(events, LAMBDA e : e.type = "InstructionExecuted")

\* C27: at every step boundary the low four bits of F are zero, in the
\* machine and in the CPU reported by InstructionExecuted, whatever the
\* instruction, POP AF of a word with a non-zero low nibble included.
C27_FlagNibble ==
    /\ gb.f % 16 = 0
    /\ \A i \in 1..Len(InstructionsExecuted) : InstructionsExecuted[i].cpu.f % 16 = 0

C27_Witness ==
    /\ hist.instr = "Pop"
    /\ hist.op = Opcode(241)
    /\ Seen(hist.pre, 53246) = 239
    /\ gb.a = 18
    /\ gb.f = 224

\* the length in bytes of the instruction of each valid opcode, prefix and
\* operands included
Length(op) ==
    LET y == (op \div 8) % 8
        z == op % 8
    IN  CASE op = 8 -> 3
          [] op \in {16, 24, 32, 40, 48, 56} -> 2
          [] op < 64 /\ z = 1 /\ y % 2 = 0 -> 3
          [] op < 64 /\ z = 6 -> 2
          [] op \in {224, 232, 240, 248} -> 2
          [] op \in {194, 202, 210, 218, 195, 234, 250} -> 3
          [] op \in {196, 204, 212, 220, 205} -> 3
          [] op = 203 -> 2
          [] op >= 192 /\ z = 6 -> 2
          [] OTHER -> 1

\* condition cc (NZ, Z, NC, C) on the flags f
CondHolds(cc, f) ==
    CASE cc = 0 -> f < 128
      [] cc = 1 -> f >= 128
      [] cc = 2 -> (f \div 16) % 2 = 0
      [] cc = 3 -> (f \div 16) % 2 = 1

\* the opcode is a jump, call, return or reset that is taken with flags f
Taken(op, f) ==
    \/ op \in {24, 195, 233, 205, 201, 217}
    \/ op \in {199, 207, 215, 223, 231, 239, 247, 255}
    \/ op \in {32, 40, 48, 56} /\ CondHolds((op - 32) \div 8, f)
    \/ op \in {192, 200, 208, 216, 194, 202, 210, 218, 196, 204, 212, 220}
          /\ CondHolds(((op - 192) \div 8) % 4, f)

\* the address the opcode of the last step was fetched from
StartAddress == Wrap16(hist.pre.pc + 65535)

\* C28: after an n-byte instruction that is not a taken jump, call, return
\* or reset, the new PC reported in InstructionExecuted is the instruction's
\* starting address plus n, modulo 2^16.
C28_PcAdvances ==
    \A i \in 1..Len(InstructionsExecuted) :
        ~Taken(hist.op[2], hist.pre.f) =>
            InstructionsExecuted[i].new_pc = Wrap16(StartAddress + Length(hist.op[2]))

\* LD BC,nn at 0xFFFE ends at 0x0001
C28_Witness ==
    /\ hist.instr = "LoadRegisterImmediate16"
    /\ StartAddress = 65534
    /\ Len(InstructionsExecuted) = 1
    /\ InstructionsExecuted[1].new_pc = 1

----------------------------------------------------------------------------
(* Claims about DAA, under SpecDaa.                                        *)

\* A after DAA of a with the flags n, h, c, as the adjustment is described
Adjusted(a, n, h, c) ==
    LET a1 == IF n THEN (IF c THEN (a + 256 - 96) % 256 ELSE a)
              ELSE (IF c \/ a > 153 THEN (a + 96) % 256 ELSE a)
    IN  IF n THEN (IF h THEN (a1 + 256 - 6) % 256 ELSE a1)
        ELSE (IF h \/ a1 % 16 > 9 THEN (a1 + 6) % 256 ELSE a1)

\* C29: DAA with N = 0 adds 0x60 and sets C when C = 1 or A > 0x99, then
\* adds 0x06 when H = 1 or the low nibble of A exceeds 9; with N = 1 it
\* subtracts 0x60 when C = 1 and 0x06 when H = 1, all wrapping to 8 bits;
\* afterwards Z = (A = 0), H = 0, N is unchanged and C is set exactly when the
\* 0x60 adjustment was applied; after LD A,0x15; LD B,0x27; ADD A,B; DAA,
\* A = 0x42 and Z, N, H, C are 0.
C29_Daa ==
    hist.instr = "DecimalAdjust" =>
        LET a == hist.pre.a
            n == Bit(hist.pre.f, 6) = 1
            h == Bit(hist.pre.f, 5) = 1
            c == Bit(hist.pre.f, 4) = 1
        IN  /\ gb.a = Adjusted(a, n, h, c)
            /\ Bit(gb.f, 7) = (IF gb.a = 0 THEN 1 ELSE 0)
            /\ Bit(gb.f, 6) = Bit(hist.pre.f, 6)
            /\ Bit(gb.f, 5) = 0
            /\ Bit(gb.f, 4) = (IF c \/ (~n /\ a > 153) THEN 1 ELSE 0)
            /\ (hist.prev_instr = "AluRegister" /\ a = 60 /\ hist.pre.f = 0) =>
                    gb.a = 66 /\ gb.f = 0

C29_Witness ==
    /\ hist.instr = "DecimalAdjust"
    /\ hist.prev_instr = "AluRegister"
    /\ hist.pre.a = 60
    /\ hist.pre.b = 39
    /\ hist.pre.f = 0
    /\ gb.a = 66
    /\ gb.f = 0

----------------------------------------------------------------------------
(* Claims about the divider, under SpecDiv.                                *)

\* C31: starting from divider 0 with the timer disabled and DIV never
\* written, after N ticks a read of DIV returns (N >> 8) mod 256 and TIMA is
\* what it was.
C31_DivRate ==
    hist.last = "tick" =>
        /\ Timer_read(gb, 65284) = (hist.steps \div 256) % 256
        /\ Timer_read(gb, 65285) = Timer_read(hist.pre, 65285)
        /\ ~gb.timer_overflowed_last_tick

\* DIV has wrapped from 0xFF to 0x00 after 65536 ticks
C31_Witness ==
    /\ hist.steps = 65536
    /\ Timer_read(hist.pre, 65284) = 255
    /\ Timer_read(gb, 65284) = 0
    /\ gb.timer_control = "Div16"
    /\ gb.timer_counter = 255

----------------------------------------------------------------------------
(* Claims about interrupt routines and HALT, under Spec.                   *)

Vectors == {64, 72, 80, 88, 96}

\* C32 as claimed: for every SP, stacks over IE (0xFFFF) or IF (0xFF0F)
\* included, start_interrupt_routine finds an enabled pending interrupt after
\* the push and completes with PC at one of the five vectors (PC is one past
\* the vector once the handler's first opcode is fetched).
C32_AsClaimed ==
    RoutineRan =>
        /\ outcome = <<"Ok">>
        /\ And8(hist.sel.iflag, hist.sel.ie) # 0
        /\ Wrap16(gb.pc + 65535) \in Vectors

\* the last step ran the interrupt routine that the halted step before it
\* asked for
WokenByInterrupt ==
    RoutineRan /\ outcome = <<"Ok">> /\ hist.before # <<>> /\ hist.before.state = "Halted"

C34_NoNesting ==
    hist.since_routine >= 0 =>
        /\ next_operation # SIR
        /\ ~gb.interrupt_master_enable
        /\ ~gb.ime_scheduled

C34_Witness ==
    /\ hist.since_routine = 2
    /\ hist.latched
    /\ hist.instr = "Nop"
    /\ Pending(hist.pre.interrupt_flag, hist.pre.interrupt_enable)
    /\ Pending(gb.interrupt_flag, gb.interrupt_enable)
    /\ next_operation[1] = "Opcode"

----------------------------------------------------------------------------
(* Claims about the reload, under SpecTimer.                               *)

\* C35: each TIMA overflow is followed, on the next tick and only then, by
\* one reload and one Timer interrupt request, whatever the CPU writes to
\* TIMA, TMA, TAC or DIV between the two ticks: TIMA becomes TMA as it
\* stands at the reload tick, replacing a value written meanwhile, and no
\* tick other than the one after an overflow reloads or requests.
C35_OneReload ==
    hist.last = "tick" =>
        /\ gb.timer_overflowed_last_tick = hist.wrapped
        /\ hist.wrapped_before =>
                /\ gb.timer_counter = hist.pre.timer_modulo
                /\ TimerBit(gb)
                /\ ~hist.wrapped
        /\ ~hist.wrapped_before =>
                /\ gb.interrupt_flag = hist.pre.interrupt_flag
                /\ gb.timer_counter \in {hist.pre.timer_counter,
                                          Wrap8(hist.pre.timer_counter + 1)}

\* TIMA = 0xFF written between the overflow and the reload is replaced
C35_Witness ==
    /\ FirstTickAfter(65285)
    /\ hist.wrapped_before
    /\ hist.pre.timer_counter = 255
    /\ hist.pre.timer_modulo = 171
    /\ ~TimerBit(hist.pre)
    /\ gb.timer_counter = 171
    /\ TimerBit(gb)

----------------------------------------------------------------------------
(* Claims about consecutive ticks, under SpecTac.                          *)

\* C40: TIMA is never incremented on two consecutive ticks, whatever is
\* written to DIV and TAC between them; so the tick that reloads TIMA from
\* TMA does not increment it as well, and TIMA equals TMA when that tick
\* ends.
C40_NoDoubleIncrement ==
    hist.last = "tick" =>
        /\ ~(hist.inc /\ hist.prev_inc)
        /\ hist.pre.timer_overflowed_last_tick =>
                /\ ~hist.inc
                /\ gb.timer_counter = gb.timer_modulo

\* TAC is rewritten between the overflow and the reload
C40_Witness ==
    /\ FirstTickAfter(65287)
    /\ hist.pre.timer_overflowed_last_tick
    /\ hist.prev_inc
    /\ ~hist.inc
    /\ gb.timer_enabled
    /\ gb.timer_counter = 0
    /\ TimerBit(gb)

----------------------------------------------------------------------------
(* Claims about the halted CPU, under SpecHalt.                            *)

HaltedWithTimer(m) ==
    m.state = "Halted" /\ m.timer_enabled /\ Bit(m.interrupt_enable, 2) = 1

\* C36: a CPU halted with the timer enabled and the Timer bit set in IE is
\* halted for at most 256 timer periods of ticks (the step in which the
\* reload tick falls wakes it), and it does leave the Halted state with the
\* Timer flag raised; and a halted step after which IF AND IE is 0 leaves
\* the CPU Halted, so that it stays Halted for as long as IF AND IE stays 0.
C36_TimerWakes ==
    /\ [](HaltedWithTimer(gb) =>
            4 * hist.halted_steps <= 256 * Period(gb.timer_control))
    /\ (HaltedWithTimer(gb) ~> (TimerBit(gb) /\ gb.state = "Running"))
    /\ [][(gb.state = "Halted"
            /\ ~Pending(gb'.interrupt_flag, gb'.interrupt_enable))
              => gb'.state = "Halted"]_vars

\* woken after 256 periods of 64 ticks
C36_Witness ==
    /\ hist.pre # <<>>
    /\ HaltedWithTimer(hist.pre)
    /\ ~TimerBit(hist.pre)
    /\ gb.state = "Running"
    /\ TimerBit(gb)
    /\ gb.timer_control = "Div64"
    /\ hist.halted_steps > 4000

\* C37: a step taken with the CPU Halted leaves A, F, B, C, D, E, H, L, SP,
\* PC, IME, IE and the RAM contents as they were and advances the clock by
\* exactly four ticks; and when no enabled interrupt is pending after those
\* ticks the CPU is still Halted and the pending operation is unchanged.
C37_HaltedFrame ==
    (hist.pre # <<>> /\ hist.pre.state = "Halted" /\ gb.panicked = "") =>
        /\ [CpuOf(gb) EXCEPT !.state = "Halted"] = CpuOf(hist.pre)
        /\ gb.interrupt_master_enable = hist.pre.interrupt_master_enable
        /\ gb.interrupt_enable = hist.pre.interrupt_enable
        /\ gb.wram = hist.pre.wram
        /\ gb.high_ram = hist.pre.high_ram
        /\ gb.vram = hist.pre.vram
        /\ get_elapsed_cycles(gb) = get_elapsed_cycles(hist.pre) + 4
        /\ ~Pending(gb.interrupt_flag, gb.interrupt_enable) =>
               /\ gb.state = "Halted"
               /\ next_operation = hist.op

\* a halted step with nothing pending, while the timer counts
C37_Witness ==
    /\ hist.pre # <<>>
    /\ hist.pre.state = "Halted"
    /\ gb.state = "Halted"
    /\ ~Pending(gb.interrupt_flag, gb.interrupt_enable)
    /\ gb.timer_enabled
    /\ gb.timer_counter # hist.pre.timer_counter
    /\ gb.interrupt_master_enable
    /\ hist.halted_steps > 1000

----------------------------------------------------------------------------
(* Claims about pending requests and the halted CPU, under Spec.           *)

\* the IF bits that were set before the step and are clear after it
Lost == And8(hist.pre.interrupt_flag, 255 - gb.interrupt_flag)

WroteIF == \E i \in 1..Len(Writes) : Writes[i].address = 65295

\* the step ran the interrupt routine for the interrupt with this IF bit
Serviced(request) ==
    /\ RoutineRan
    /\ \E i \in 1..Len(events) :
            /\ events[i].type = "InterruptRoutineFinished"
            /\ BitOfInterrupt(events[i].interrupt) = request

\* C38: an IF bit that is set before a step is still set after it, unless the
\* step is the interrupt routine for that same interrupt or the step wrote to
\* 0xFF0F: no instruction (EI, DI and RETI among them), no clock tick, no
\* halted step and no routine for another interrupt clears it.
C38_NotLost ==
    (hist.pre # <<>> /\ gb.panicked = "") =>
        \/ Lost = 0
        \/ WroteIF
        \/ Serviced(Lost)

\* a routine runs while a second request waits, which is kept
C38_Witness ==
    /\ RoutineRan
    /\ outcome = <<"Ok">>
    /\ ~WroteIF
    /\ Lost # 0
    /\ Lost # hist.pre.interrupt_flag
    /\ And8(gb.interrupt_flag, hist.pre.interrupt_enable) # 0

HaltedBeforeRoutine ==
    /\ hist.pre # <<>>
    /\ hist.pre.state = "Halted"
    /\ hist.op = SIR

\* C39: the assertion of the halted step never fails, and a halted step
\* taken with StartInterruptRoutine as the pending operation finds IME true
\* and IF AND IE nonzero after its ticks, wakes the CPU and returns
\* StartInterruptRoutine.
C39_AssertionHolds ==
    /\ gb.panicked # "assertion failed: original_next_op != StartInterruptRoutine"
    /\ HaltedBeforeRoutine =>
            /\ gb.panicked = ""
            /\ gb.interrupt_master_enable
            /\ Pending(gb.interrupt_flag, gb.interrupt_enable)
            /\ gb.state = "Running"
            /\ next_operation = SIR

\* HALT was executed with IME true and an enabled request pending
C39_Witness ==
    /\ HaltedBeforeRoutine
    /\ hist.prev_instr = "Halt"
    /\ hist.pre.interrupt_master_enable
    /\ next_operation = SIR
====
